---- MODULE Spec2Model ----
(***************************************************************************)
(* In-memory A2A task manager (server/task_manager.py) together with the   *)
(* on_send_task policy of its two subclasses (OrchestratorTaskManager,     *)
(* ExcelWhisperTaskManager).  Coroutines are modelled as processes that    *)
(* step from one suspension point (await) to the next.                     *)
(***************************************************************************)
EXTENDS Integers, Sequences, FiniteSets, TLC

VARIABLES
    objs,      \* heap of Task objects, address = index (Task(...) at task_manager.py:106)
    tasks,     \* self.tasks : task id -> address of the stored Task object
    locked,    \* self.lock  : asyncio.Lock, TRUE while held
    clock,     \* source of datetime.now() for TaskStatus.timestamp
    pc,        \* position of every coroutine
    req,       \* the request / params every coroutine is serving
    task,      \* local variable `task` of on_send_task (address)
    reply,     \* local variable `response_text` of on_send_task
    last,      \* the call that finished last: who ran it, its request and
               \* what it returned or raised
    ncalls,    \* number of calls started so far
    upcalls,   \* history variable: per id, the messages of the upsert_task
               \* calls in the order in which they took the lock
    kinds,     \* history variable: per id, "u" / "r" for every write made to
               \* the history of that id (upsert write / reply write)
    fresh,     \* history variable: TRUE while `last` is an on_get_task and
               \* the task it asked for was not written since
    acquired,  \* history variable: per id, the messages of the upsert and
               \* reply-completion steps in the order in which the steps
               \* took the lock
    conn,      \* per coroutine: the body of the HTTP request it serves in
               \* handle_request, NoBody when the task manager is called
               \* directly
    http,      \* the HTTP response sent last by handle_request, with the
               \* request body it answers
    registry_file, \* DiscoveryClient: what is at the path of the registry file
    base_urls,     \* DiscoveryClient.base_urls
    lpc,           \* position of the DiscoveryClient and of list_agent_cards
    pos,           \* list_agent_cards: index of the entry the loop is at
    cards,         \* list_agent_cards: local variable `cards`
    probed,        \* history variable: how the probes of the running /
                   \* last list_agent_cards ended, in the order made
    found,         \* what the last list_agent_cards returned
    component,     \* the agent that delegates: HostAgent, GreetingAgent or
                   \* OrchestratorAgent; None before it is constructed
    agent_cards,   \* the cards the component resolves agent names against
    connectors,    \* self.connectors : agent name -> address of a connector
    made,          \* heap of the AgentConnector objects created, address = index
    cpc,           \* position of every delegation call
    creq,          \* the agent_name argument of every delegation call
    cuse,          \* local variable `connector` of every delegation call
    used,          \* history variable: per card name, the connectors that the
                   \* calls resolved to that name took, in the order taken
    sent,          \* the send_task that finished last: who called, on which
                   \* connector, what the remote agent answered, the outcome
    ndeleg,        \* number of delegation calls started so far
    executor,      \* the AgentExecutor class whose execute runs / ran last
    context,       \* RequestContext of that execute: message, current_task
    epc,           \* position of the execute call
    etask,         \* local variable `task` of execute
    pending,       \* the events execute is about to enqueue, in order
    event_queue,   \* the events enqueued by that execute, in order
    eout,          \* how the last execute ended
    cout,          \* how the last cancel ended
    ecalls         \* history variable: the executor operations called so far

managerVars == <<objs, tasks, locked, clock, pc, req, task, reply, last, ncalls,
                 upcalls, kinds, fresh, acquired, conn, http>>

discoveryVars == <<registry_file, base_urls, lpc, pos, cards, probed, found>>

delegationVars == <<component, agent_cards, connectors, made, cpc, creq, cuse,
                    used, sent, ndeleg>>

executorVars == <<executor, context, epc, etask, pending, event_queue, eout,
                  cout, ecalls>>

vars == <<managerVars, discoveryVars, delegationVars, executorVars>>

---------------------------------------------------------------------------
(* Bounds of the model *)

MaxCalls == 3

Procs == {"p1", "p2"}
TaskIds == {"t1", "t2"}
(* The JSON-RPC id the caller p puts on its requests. *)
ReqIdOf(p) == <<"id", p>>
ReplyTexts == {"b"}

---------------------------------------------------------------------------
(* models/task.py, models/json_rpc.py, models/request.py *)

None == "None"
NoAddr == 0

TextOf(part) == part

Message(role, parts) == [role |-> role, parts |-> parts]

NoMessage == Message(None, <<>>)

InMessages ==
    { Message("user", <<"a">>), Message("user", <<>>) }

SUBMITTED == "submitted"
COMPLETED == "completed"

TaskStatus(state, now) == [state |-> state, timestamp |-> now]

Task(id, status, history) == [id |-> id, status |-> status, history |-> history]

NoHistoryLength == [some |-> FALSE, val |-> 0]
HistoryLength(n) == [some |-> TRUE, val |-> n]

HistoryLengths ==
    { NoHistoryLength } \cup { HistoryLength(n) : n \in {-1, 0, 2} }

TaskSendParams(id, message) ==
    [id |-> id, message |-> message, historyLength |-> NoHistoryLength]

TaskQueryParams(id, hl) ==
    [id |-> id, message |-> NoMessage, historyLength |-> hl]

Request(method, id, params) == [method |-> method, id |-> id, params |-> params]

NoId == <<"id", None>>

NoReq == Request(None, NoId, TaskQueryParams(None, NoHistoryLength))

(* A JSON-RPC id is int | str | None; a response built on the error path of
   the server carries None. *)
ErrorDict(keys, code, message) == [keys |-> keys, code |-> code, message |-> message]
NoError == ErrorDict({}, 0, None)

(* JSONRPCError: `code: int` and `message: str` are required fields, `data`
   is optional; pydantic refuses a mapping that lacks a required field. *)
JSONRPCErrorValid(e) == {"code", "message"} \subseteq e.keys

(* Results of a call: a value or an exception. *)
NoOutcome == [kind |-> "none"]
Raised(exc) == [kind |-> "raise", exc |-> exc]
ReturnedTask(a) == [kind |-> "task", addr |-> a]
ReturnedResponse(r) == [kind |-> "response", response |-> r]

(* The `result` of a response: unset, the stored Task object itself, or a
   Task object made by model_copy(). *)
NoTask == [tag |-> "none"]
TaskRef(a) == [tag |-> "ref", addr |-> a]
TaskCopy(id, status, history) ==
    [tag |-> "copy", id |-> id, status |-> status, history |-> history]

(* A list held by a copied Task: the very list object of the stored Task at
   address a, or a list of its own. *)
SharedList(a) == [shared |-> TRUE, addr |-> a]
OwnList(items) == [shared |-> FALSE, items |-> items]
ListItems(o, l) == IF l.shared THEN o[l.addr].history ELSE l.items

(* JSONRPCResponse / SendTaskResponse / GetTaskResponse constructor: the
   fields are validated, `error` against JSONRPCError. *)
JSONRPCResponse(id, result, error) ==
    IF error # NoError /\ ~JSONRPCErrorValid(error)
    THEN Raised("ValidationError")
    ELSE ReturnedResponse([id |-> id, result |-> result, error |-> error])

Max(a, b) == IF a >= b THEN a ELSE b
Min(a, b) == IF a <= b THEN a ELSE b

(* Python's s[start:] *)
PySliceFrom(s, start) ==
    LET from == IF start < 0 THEN Max(Len(s) + start, 0) ELSE Min(start, Len(s))
    IN  SubSeq(s, from + 1, Len(s))

---------------------------------------------------------------------------
(* server/task_manager.py : InMemoryTaskManager *)

TasksGet(tk, id) == IF id \in DOMAIN tk THEN tk[id] ELSE NoAddr

(* Variants of upsert_task with a slip in them, used to show that the
   properties below depend on what upsert_task does. *)
UpsertTaskPrepend(o, tk, now, params) ==
    LET a == TasksGet(tk, params.id) IN
    IF a = NoAddr
    THEN [objs  |-> Append(o, Task(params.id, TaskStatus(SUBMITTED, now),
                                   <<params.message>>)),
          tasks |-> (params.id :> (Len(o) + 1)) @@ tk,
          clock |-> now + 1,
          task  |-> Len(o) + 1]
    ELSE [objs  |-> [o EXCEPT ![a].history = <<params.message>> \o @],
          tasks |-> tk,
          clock |-> now,
          task  |-> a]

UpsertTaskAlwaysCreate(o, tk, now, params) ==
    [objs  |-> Append(o, Task(params.id, TaskStatus(SUBMITTED, now),
                              <<params.message>>)),
     tasks |-> (params.id :> (Len(o) + 1)) @@ tk,
     clock |-> now + 1,
     task  |-> Len(o) + 1]

UpsertTaskWorking(o, tk, now, params) ==
    LET a == TasksGet(tk, params.id) IN
    IF a = NoAddr
    THEN [objs  |-> Append(o, Task(params.id, TaskStatus("working", now),
                                   <<params.message>>)),
          tasks |-> (params.id :> (Len(o) + 1)) @@ tk,
          clock |-> now + 1,
          task  |-> Len(o) + 1]
    ELSE [objs  |-> [o EXCEPT ![a].history = Append(@, params.message)],
          tasks |-> tk,
          clock |-> now,
          task  |-> a]

UpsertTaskResetStatus(o, tk, now, params) ==
    LET a == TasksGet(tk, params.id) IN
    IF a = NoAddr
    THEN [objs  |-> Append(o, Task(params.id, TaskStatus(SUBMITTED, now),
                                   <<params.message>>)),
          tasks |-> (params.id :> (Len(o) + 1)) @@ tk,
          clock |-> now + 1,
          task  |-> Len(o) + 1]
    ELSE [objs  |-> [o EXCEPT ![a].history = Append(@, params.message),
                              ![a].status  = TaskStatus(SUBMITTED, now)],
          tasks |-> tk,
          clock |-> now + 1,
          task  |-> a]

(* upsert_task that starts the history of an existing task anew. *)
UpsertTaskReplace(o, tk, now, params) ==
    LET a == TasksGet(tk, params.id) IN
    IF a = NoAddr
    THEN [objs  |-> Append(o, Task(params.id, TaskStatus(SUBMITTED, now),
                                   <<params.message>>)),
          tasks |-> (params.id :> (Len(o) + 1)) @@ tk,
          clock |-> now + 1,
          task  |-> Len(o) + 1]
    ELSE [objs  |-> [o EXCEPT ![a].history = <<params.message>>],
          tasks |-> tk,
          clock |-> now,
          task  |-> a]

(* The body of upsert_task, run with the lock held (lines 102-116). *)
UpsertTask(o, tk, now, params) ==
    LET a == TasksGet(tk, params.id) IN
    IF a = NoAddr
    THEN [objs  |-> Append(o, Task(params.id, TaskStatus(SUBMITTED, now),
                                   <<params.message>>)),
          tasks |-> (params.id :> (Len(o) + 1)) @@ tk,
          clock |-> now + 1,
          task  |-> Len(o) + 1]
    ELSE [objs  |-> [o EXCEPT ![a].history = Append(@, params.message)],
          tasks |-> tk,
          clock |-> now,
          task  |-> a]

(* on_get_task that truncates the stored task instead of a copy. *)
OnGetTaskInPlace(o, tk, request) ==
    LET query == request.params
        a     == TasksGet(tk, query.id)
    IN
    IF a = NoAddr
    THEN [objs |-> o,
          out  |-> JSONRPCResponse(request.id, NoTask,
                                   ErrorDict({"message"}, 0, "task not found"))]
    ELSE LET o2 == IF query.historyLength.some
                   THEN [o EXCEPT ![a].history =
                                      PySliceFrom(@, -query.historyLength.val)]
                   ELSE o
         IN  [objs |-> o2,
              out  |-> JSONRPCResponse(request.id,
                                       TaskCopy(o[a].id, o[a].status, SharedList(a)),
                                       NoError)]

(* The body of on_get_task, run with the lock held (lines 145-159). *)
OnGetTask(o, tk, request) ==
    LET query == request.params
        a     == TasksGet(tk, query.id)
    IN
    IF a = NoAddr
    THEN [objs |-> o,
          out  |-> JSONRPCResponse(request.id, NoTask,
                                   ErrorDict({"message"}, 0, "task not found"))]
    ELSE LET history ==
                 IF query.historyLength.some
                 THEN OwnList(PySliceFrom(o[a].history, -query.historyLength.val))
                 ELSE SharedList(a)
         IN  [objs |-> o,
              out  |-> JSONRPCResponse(request.id,
                                       TaskCopy(o[a].id, o[a].status, history),
                                       NoError)]

(* A lock that lets everyone in. *)
CanAcquireNoLock(l) == TRUE

(* asyncio.Lock.acquire succeeds only while the lock is not held. *)
CanAcquire(l) == ~l

(* on_send_task that marks the task completed and forgets the reply. *)
CompleteTaskNoAppend(o, a, now, text) ==
    [o EXCEPT ![a].status = TaskStatus(COMPLETED, now)]

(* on_send_task that puts the reply in front of the history. *)
CompleteTaskPrepend(o, a, now, text) ==
    [o EXCEPT ![a].status  = TaskStatus(COMPLETED, now),
              ![a].history = <<Message("agent", <<text>>)>> \o @]

(* on_send_task that appends the reply and leaves the status as it is. *)
CompleteTaskAppendOnly(o, a, now, text) ==
    [o EXCEPT ![a].history = Append(@, Message("agent", <<text>>))]

(* on_send_task, lines 260-263: the write made with the lock held. *)
CompleteTask(o, a, now, text) ==
    [o EXCEPT ![a].status  = TaskStatus(COMPLETED, now),
              ![a].history = Append(@, Message("agent", <<text>>))]

(* _get_user_text: request.params.message.parts[0].text *)
GetUserText(request) ==
    IF request.params.message.parts = <<>>
    THEN Raised("IndexError")
    ELSE [kind |-> "text", text |-> TextOf(request.params.message.parts[1])]

---------------------------------------------------------------------------
(* What a response looks like to its receiver: lists are read through. *)
ViewTask(o, t) ==
    IF t.tag = "none" THEN <<"none">>
    ELSE IF t.tag = "ref"
         THEN <<"task", o[t.addr].id, o[t.addr].status, o[t.addr].history>>
         ELSE <<"task", t.id, t.status, ListItems(o, t.history)>>

ViewOutcome(o, out) ==
    IF out.kind = "response"
    THEN <<"response", out.response.id, ViewTask(o, out.response.result),
           out.response.error>>
    ELSE IF out.kind = "raise" THEN <<"raise", out.exc>> ELSE <<out.kind>>

Finished(p, request, out) == [by |-> p, request |-> request, outcome |-> out]
NoLast == Finished(None, NoReq, NoOutcome)

(* A write to task id makes an earlier fetch of that id out of date. *)
Forget(fr, l, id) == fr /\ l.request.params.id # id

LockPcs == {"upsert_lock", "get_lock", "reply_lock"}
CsPcs == {"upsert_cs", "get_cs", "reply_cs"}
CsOf(l) == CASE l = "upsert_lock" -> "upsert_cs"
             [] l = "get_lock"    -> "get_cs"
             [] l = "reply_lock"  -> "reply_cs"

---------------------------------------------------------------------------
(* server/server.py : A2AServer, POST / *)

(* Bodies of HTTP requests: text that is not JSON, or a JSON object with
   method, id and params; params is the JSON object given, of which `keys`
   are the members present. *)
NoBody == [kind |-> "none"]
Garbage == [kind |-> "text"]
JsonBody(method, id, params) ==
    [kind |-> "json", method |-> method, id |-> id, params |-> params]

RawParams(keys, id, message) ==
    [keys |-> keys, id |-> id, message |-> message]

Bodies(p) ==
    { Garbage }
    \cup { JsonBody("tasks/send", ReqIdOf(p),
                    RawParams({"id", "sessionId", "message"}, id, m)) :
               id \in TaskIds, m \in InMessages }
    \cup { JsonBody("tasks/send", ReqIdOf(p), RawParams({"id"}, "t1", NoMessage)) }
    \cup { JsonBody("tasks/get", ReqIdOf(p), RawParams({"id"}, id, NoMessage)) :
               id \in TaskIds }
    \cup { JsonBody("tasks/nonexistent", ReqIdOf(p), RawParams({}, None, NoMessage)) }

(* The methods of the discriminated union and the required fields of their
   params: TaskSendParams needs id and message (sessionId has a default),
   TaskQueryParams needs id. *)
Methods == {"tasks/send", "tasks/get"}
RequiredKeys(method) ==
    IF method = "tasks/send" THEN {"id", "message"} ELSE {"id"}

(* A validation that looks at the method only. *)
A2ARequestValidateMethodOnly(body) ==
    IF body.method \notin Methods
    THEN Raised("ValidationError")
    ELSE [kind    |-> "request",
          request |-> Request(body.method, body.id,
                              IF body.method = "tasks/send"
                              THEN TaskSendParams(body.params.id, body.params.message)
                              ELSE TaskQueryParams(body.params.id, NoHistoryLength))]

(* A2ARequest.validate_python(body) *)
A2ARequestValidate(body) ==
    IF body.method \notin Methods
    THEN Raised("ValidationError")
    ELSE IF ~(RequiredKeys(body.method) \subseteq body.params.keys)
    THEN Raised("ValidationError")
    ELSE [kind    |-> "request",
          request |-> Request(body.method, body.id,
                              IF body.method = "tasks/send"
                              THEN TaskSendParams(body.params.id, body.params.message)
                              ELSE TaskQueryParams(body.params.id, NoHistoryLength))]

(* handle_request from the parsed body to the call of the handler (lines
   94-100): the request handed to on_send_task, or the exception raised. *)
Dispatch(body) ==
    IF body.kind # "json"
    THEN Raised("JSONDecodeError")
    ELSE LET v == A2ARequestValidate(body) IN
         IF v.kind = "raise" THEN v
         ELSE IF v.request.method = "tasks/send" THEN v
         ELSE Raised("ValueError")

(* str(e) *)
StrOf(exc) ==
    CASE exc = "JSONDecodeError" -> "Expecting value"
      [] exc = "ValidationError" -> "validation error for tagged-union"
      [] exc = "ValueError"      -> "unsupported A2A method"
      [] exc = "IndexError"      -> "list index out of range"
      [] exc = "AgentError"      -> "agent failed"
      [] OTHER                   -> "error"

(* InternalError(message=...): code defaults to -32603. *)
InternalError(message) == ErrorDict({"code", "message"}, -32603, message)

(* model_dump() of a response, with or without exclude_none: the members
   of the JSON object sent and their values. *)
ModelDump(o, r, exclude_none) ==
    [keys   |-> {"jsonrpc"}
                \cup (IF exclude_none /\ r.id = NoId THEN {} ELSE {"id"})
                \cup (IF exclude_none /\ r.result = NoTask THEN {} ELSE {"result"})
                \cup (IF exclude_none /\ r.error = NoError THEN {} ELSE {"error"}),
     id     |-> r.id,
     result |-> ViewTask(o, r.result),
     error  |-> r.error]

NoContent == [keys |-> {}, id |-> NoId, result |-> <<"none">>, error |-> NoError]

JSONResponse(content, status_code) == [status |-> status_code, content |-> content]

(* The except branch that answers with the default message of InternalError. *)
ErrorResponseDefaultMessage(o, exc) ==
    JSONResponse(ModelDump(o, JSONRPCResponse(NoId, NoTask,
                                              InternalError("Internal error")).response,
                           FALSE),
                 400)

(* The except branch of handle_request (lines 102-107). *)
ErrorResponse(o, exc) ==
    JSONResponse(ModelDump(o, JSONRPCResponse(NoId, NoTask,
                                              InternalError(StrOf(exc))).response,
                           FALSE),
                 400)

(* _create_response (lines 130-133) *)
CreateResponse(o, result) ==
    IF result.kind = "response"
    THEN JSONResponse(ModelDump(o, result.response, TRUE), 200)
    ELSE Raised("ValueError")

(* handle_request from the return of the handler to the HTTP response
   (lines 98-107). *)
HandleResult(o, out) ==
    IF out.kind = "raise"
    THEN ErrorResponse(o, out.exc)
    ELSE LET c == CreateResponse(o, out) IN
         IF "status" \in DOMAIN c THEN c ELSE ErrorResponse(o, c.exc)

Answer(p, body, resp) ==
    [by |-> p, request |-> body, status |-> resp.status, content |-> resp.content]

NoHttp == [by |-> None, request |-> NoBody, status |-> 0, content |-> NoContent]

(* The HTTP response that follows when the handler called by coroutine p
   ends with `out`; none when the task manager was called directly. *)
Deliver(p, o, out) ==
    IF conn[p] = NoBody THEN http ELSE Answer(p, conn[p], HandleResult(o, out))

---------------------------------------------------------------------------
ManagerInit ==
    /\ objs = <<>>
    /\ tasks = <<>>
    /\ locked = FALSE
    /\ clock = 0
    /\ pc = [p \in Procs |-> "idle"]
    /\ req = [p \in Procs |-> NoReq]
    /\ task = [p \in Procs |-> NoAddr]
    /\ reply = [p \in Procs |-> None]
    /\ last = NoLast
    /\ ncalls = 0
    /\ upcalls = [t \in TaskIds |-> <<>>]
    /\ kinds = [t \in TaskIds |-> <<>>]
    /\ fresh = FALSE
    /\ acquired = [t \in TaskIds |-> <<>>]
    /\ conn = [p \in Procs |-> NoBody]
    /\ http = NoHttp

(* No DiscoveryClient is built. *)
DiscoveryIdle ==
    /\ registry_file = [kind |-> "missing"]
    /\ base_urls = <<>>
    /\ lpc = "new"
    /\ pos = 0
    /\ cards = <<>>
    /\ probed = <<>>
    /\ found = [some |-> FALSE, cards |-> <<>>]

(* No delegating agent is built. *)
DelegationIdle ==
    /\ component = None
    /\ agent_cards = <<>>
    /\ connectors = <<>>
    /\ made = <<>>
    /\ cpc = [p \in Procs |-> "idle"]
    /\ creq = [p \in Procs |-> None]
    /\ cuse = [p \in Procs |-> NoAddr]
    /\ used = [n \in {"Tell Time Agent", "Greeting Agent"} |-> <<>>]
    /\ sent = [by |-> None, connector |-> NoAddr,
               reply |-> [kind |-> "none"], outcome |-> NoOutcome]
    /\ ndeleg = 0

(* The events and tasks of the a2a package as the executors use them. *)
ExecTask(id, contextId, state) == [id |-> id, contextId |-> contextId, state |-> state]
NoCurrentTask == ExecTask(None, None, None)

RequestContext(message, current_task) ==
    [message |-> message, current_task |-> current_task]

(* No executor has been called. *)
ExecutorIdle ==
    /\ executor = None
    /\ context = RequestContext(NoMessage, NoCurrentTask)
    /\ epc = "idle"
    /\ etask = NoCurrentTask
    /\ pending = <<>>
    /\ event_queue = <<>>
    /\ eout = NoOutcome
    /\ cout = NoOutcome
    /\ ecalls = <<>>

Init == ManagerInit /\ DiscoveryIdle /\ DelegationIdle /\ ExecutorIdle

(* A caller starts upsert_task(params) (line 91). *)
CallUpsertTask(p) ==
    /\ pc[p] = "idle"
    /\ ncalls < MaxCalls
    /\ \E id \in TaskIds, m \in InMessages :
          req' = [req EXCEPT ![p] = Request("upsert_task", NoId, TaskSendParams(id, m))]
    /\ pc' = [pc EXCEPT ![p] = "upsert_lock"]
    /\ ncalls' = ncalls + 1
    /\ UNCHANGED <<conn, http, objs, tasks, locked, clock, task, reply, last, acquired, upcalls, kinds,
                   fresh>>
    /\ UNCHANGED <<discoveryVars, delegationVars, executorVars>>

(* on_send_task(request) is entered; it first awaits upsert_task
   (orchestrator.py:250-253, excel_whisper_agent/task_manager.py:17-19). *)
CallOnSendTask(p) ==
    /\ pc[p] = "idle"
    /\ ncalls < MaxCalls
    /\ \E id \in TaskIds, m \in InMessages :
          req' = [req EXCEPT ![p] =
                      Request("tasks/send", ReqIdOf(p), TaskSendParams(id, m))]
    /\ pc' = [pc EXCEPT ![p] = "upsert_lock"]
    /\ ncalls' = ncalls + 1
    /\ UNCHANGED <<conn, http, objs, tasks, locked, clock, task, reply, last, acquired, upcalls, kinds,
                   fresh>>
    /\ UNCHANGED <<discoveryVars, delegationVars, executorVars>>

(* on_get_task(request) is entered (line 134). *)
CallOnGetTask(p) ==
    /\ pc[p] = "idle"
    /\ ncalls < MaxCalls
    /\ \E id \in TaskIds, hl \in HistoryLengths :
          req' = [req EXCEPT ![p] =
                      Request("tasks/get", ReqIdOf(p), TaskQueryParams(id, hl))]
    /\ pc' = [pc EXCEPT ![p] = "get_lock"]
    /\ ncalls' = ncalls + 1
    /\ UNCHANGED <<conn, http, objs, tasks, locked, clock, task, reply, last, acquired, upcalls, kinds,
                   fresh>>
    /\ UNCHANGED <<discoveryVars, delegationVars, executorVars>>

(* The message that the locked section coroutine p is about to enter will
   append: params.message in upsert_task (task_manager.py:113), the reply of
   the collaborator in on_send_task (orchestrator.py:263). *)
LockMessage(p) ==
    IF pc[p] = "reply_lock"
    THEN Message("agent", <<reply[p]>>)
    ELSE req[p].params.message

(* `async with self.lock` is entered (task_manager.py:101, 144;
   orchestrator.py:261; excel_whisper_agent/task_manager.py:27). *)
AcquireLock(p) ==
    /\ pc[p] \in LockPcs
    /\ CanAcquire(locked)
    /\ locked' = TRUE
    /\ pc' = [pc EXCEPT ![p] = CsOf(pc[p])]
    /\ upcalls' = IF pc[p] = "upsert_lock"
                  THEN [upcalls EXCEPT ![req[p].params.id] =
                                           Append(@, req[p].params.message)]
                  ELSE upcalls
    /\ acquired' = IF pc[p] \in {"upsert_lock", "reply_lock"}
                   THEN [acquired EXCEPT ![req[p].params.id] =
                                            Append(@, LockMessage(p))]
                   ELSE acquired
    /\ UNCHANGED <<conn, http, objs, tasks, clock, req, task, reply, last, ncalls, kinds, fresh>>
    /\ UNCHANGED <<discoveryVars, delegationVars, executorVars>>

(* An on_send_task that awaits agent.invoke inside the `async with` of its
   upsert: the lock stays held when the coroutine suspends. *)
UpsertSectionKeepLock(p) ==
    /\ pc[p] = "upsert_cs"
    /\ LET r  == UpsertTask(objs, tasks, clock, req[p].params)
           ut == GetUserText(req[p])
       IN  /\ objs' = r.objs
           /\ tasks' = r.tasks
           /\ clock' = r.clock
           /\ IF req[p].method = "upsert_task"
              THEN /\ pc' = [pc EXCEPT ![p] = "idle"]
                   /\ last' = Finished(p, req[p], ReturnedTask(r.task))
                   /\ req' = [req EXCEPT ![p] = NoReq]
                   /\ task' = task
                   /\ fresh' = FALSE
                   /\ locked' = FALSE
                   /\ UNCHANGED <<conn, http>>
              ELSE IF ut.kind = "raise"
              THEN /\ pc' = [pc EXCEPT ![p] = "idle"]
                   /\ last' = Finished(p, req[p], ut)
                   /\ req' = [req EXCEPT ![p] = NoReq]
                   /\ task' = task
                   /\ fresh' = FALSE
                   /\ locked' = FALSE
                   /\ http' = Deliver(p, r.objs, ut)
                   /\ conn' = [conn EXCEPT ![p] = NoBody]
              ELSE /\ pc' = [pc EXCEPT ![p] = "invoke"]
                   /\ task' = [task EXCEPT ![p] = r.task]
                   /\ fresh' = Forget(fresh, last, req[p].params.id)
                   /\ locked' = TRUE
                   /\ UNCHANGED <<last, req, conn, http>>
    /\ kinds' = [kinds EXCEPT ![req[p].params.id] = Append(@, "u")]
    /\ UNCHANGED <<reply, ncalls, acquired, upcalls>>
    /\ UNCHANGED <<discoveryVars, delegationVars, executorVars>>

(* upsert_task's locked section up to the release of the lock; for
   on_send_task the coroutine runs on to its next await, agent.invoke
   (orchestrator.py:253-257). *)
UpsertSection(p) ==
    /\ pc[p] = "upsert_cs"
    /\ LET r  == UpsertTask(objs, tasks, clock, req[p].params)
           ut == GetUserText(req[p])
       IN  /\ objs' = r.objs
           /\ tasks' = r.tasks
           /\ clock' = r.clock
           /\ IF req[p].method = "upsert_task"
              THEN /\ pc' = [pc EXCEPT ![p] = "idle"]
                   /\ last' = Finished(p, req[p], ReturnedTask(r.task))
                   /\ req' = [req EXCEPT ![p] = NoReq]
                   /\ task' = task
                   /\ fresh' = FALSE
                   /\ UNCHANGED <<conn, http>>
              ELSE IF ut.kind = "raise"
              THEN /\ pc' = [pc EXCEPT ![p] = "idle"]
                   /\ last' = Finished(p, req[p], ut)
                   /\ req' = [req EXCEPT ![p] = NoReq]
                   /\ task' = task
                   /\ fresh' = FALSE
                   /\ http' = Deliver(p, r.objs, ut)
                   /\ conn' = [conn EXCEPT ![p] = NoBody]
              ELSE /\ pc' = [pc EXCEPT ![p] = "invoke"]
                   /\ task' = [task EXCEPT ![p] = r.task]
                   /\ fresh' = Forget(fresh, last, req[p].params.id)
                   /\ UNCHANGED <<last, req, conn, http>>
    /\ locked' = FALSE
    /\ kinds' = [kinds EXCEPT ![req[p].params.id] = Append(@, "u")]
    /\ UNCHANGED <<reply, ncalls, acquired, upcalls>>
    /\ UNCHANGED <<discoveryVars, delegationVars, executorVars>>

(* agent.invoke returns the reply text; the coroutine goes on to
   `async with self.lock` (orchestrator.py:257-261). *)
InvokeReturn(p) ==
    /\ pc[p] = "invoke"
    /\ \E text \in ReplyTexts : reply' = [reply EXCEPT ![p] = text]
    /\ pc' = [pc EXCEPT ![p] = "reply_lock"]
    /\ UNCHANGED <<conn, http, objs, tasks, locked, clock, req, task, last, ncalls, acquired, upcalls,
                   kinds, fresh>>
    /\ UNCHANGED <<discoveryVars, delegationVars, executorVars>>

(* An on_send_task that catches the exception of agent.invoke, marks the
   task failed and raises again. *)
InvokeRaiseMarkFailed(p) ==
    /\ pc[p] = "invoke"
    /\ pc' = [pc EXCEPT ![p] = "idle"]
    /\ objs' = [objs EXCEPT ![task[p]].status = TaskStatus("failed", clock)]
    /\ last' = Finished(p, req[p], Raised("AgentError"))
    /\ http' = Deliver(p, objs', Raised("AgentError"))
    /\ conn' = [conn EXCEPT ![p] = NoBody]
    /\ req' = [req EXCEPT ![p] = NoReq]
    /\ task' = [task EXCEPT ![p] = NoAddr]
    /\ fresh' = FALSE
    /\ UNCHANGED <<tasks, locked, clock, reply, ncalls, acquired, upcalls, kinds>>
    /\ UNCHANGED <<discoveryVars, delegationVars, executorVars>>

(* agent.invoke raises; on_send_task has no handler and raises too. *)
InvokeRaise(p) ==
    /\ pc[p] = "invoke"
    /\ pc' = [pc EXCEPT ![p] = "idle"]
    /\ last' = Finished(p, req[p], Raised("AgentError"))
    /\ http' = Deliver(p, objs, Raised("AgentError"))
    /\ conn' = [conn EXCEPT ![p] = NoBody]
    /\ req' = [req EXCEPT ![p] = NoReq]
    /\ task' = [task EXCEPT ![p] = NoAddr]
    /\ fresh' = FALSE
    /\ UNCHANGED <<objs, tasks, locked, clock, reply, ncalls, acquired, upcalls, kinds>>
    /\ UNCHANGED <<discoveryVars, delegationVars, executorVars>>

(* The second locked section of on_send_task and its return
   (orchestrator.py:261-266). *)
ReplySection(p) ==
    /\ pc[p] = "reply_cs"
    /\ objs' = CompleteTask(objs, task[p], clock, reply[p])
    /\ clock' = clock + 1
    /\ locked' = FALSE
    /\ last' = Finished(p, req[p],
                        JSONRPCResponse(req[p].id, TaskRef(task[p]), NoError))
    /\ http' = Deliver(p, objs',
                       JSONRPCResponse(req[p].id, TaskRef(task[p]), NoError))
    /\ conn' = [conn EXCEPT ![p] = NoBody]
    /\ req' = [req EXCEPT ![p] = NoReq]
    /\ pc' = [pc EXCEPT ![p] = "idle"]
    /\ task' = [task EXCEPT ![p] = NoAddr]
    /\ reply' = [reply EXCEPT ![p] = None]
    /\ kinds' = [kinds EXCEPT ![req[p].params.id] = Append(@, "r")]
    /\ fresh' = FALSE
    /\ UNCHANGED <<tasks, ncalls, acquired, upcalls>>
    /\ UNCHANGED <<discoveryVars, delegationVars, executorVars>>

(* The locked section of on_get_task and its return (lines 145-159). *)
GetSection(p) ==
    /\ pc[p] = "get_cs"
    /\ LET r == OnGetTask(objs, tasks, req[p])
       IN  /\ objs' = r.objs
           /\ last' = Finished(p, req[p], r.out)
           /\ http' = Deliver(p, r.objs, r.out)
    /\ conn' = [conn EXCEPT ![p] = NoBody]
    /\ req' = [req EXCEPT ![p] = NoReq]
    /\ fresh' = TRUE
    /\ locked' = FALSE
    /\ pc' = [pc EXCEPT ![p] = "idle"]
    /\ UNCHANGED <<tasks, clock, task, reply, ncalls, acquired, upcalls, kinds>>
    /\ UNCHANGED <<discoveryVars, delegationVars, executorVars>>

(* POST / arrives; handle_request awaits the body (line 94). *)
HandleRequest(p) ==
    /\ pc[p] = "idle"
    /\ ncalls < MaxCalls
    /\ \E body \in Bodies(p) : conn' = [conn EXCEPT ![p] = body]
    /\ pc' = [pc EXCEPT ![p] = "read_body"]
    /\ ncalls' = ncalls + 1
    /\ UNCHANGED <<objs, tasks, locked, clock, req, task, reply, last, upcalls,
                   kinds, fresh, acquired, http>>
    /\ UNCHANGED <<discoveryVars, delegationVars, executorVars>>

(* handle_request parses and validates the body and either answers with the
   error response or enters on_send_task, whose first await is the lock of
   upsert_task (lines 94-107). *)
ValidateRequest(p) ==
    /\ pc[p] = "read_body"
    /\ LET d == Dispatch(conn[p]) IN
       IF d.kind = "raise"
       THEN /\ http' = Answer(p, conn[p], ErrorResponse(objs, d.exc))
            /\ conn' = [conn EXCEPT ![p] = NoBody]
            /\ pc' = [pc EXCEPT ![p] = "idle"]
            /\ req' = req
       ELSE /\ req' = [req EXCEPT ![p] = d.request]
            /\ pc' = [pc EXCEPT ![p] = "upsert_lock"]
            /\ UNCHANGED <<conn, http>>
    /\ UNCHANGED <<objs, tasks, locked, clock, task, reply, last, ncalls, upcalls,
                   kinds, fresh, acquired>>
    /\ UNCHANGED <<discoveryVars, delegationVars, executorVars>>

Next ==
    \E p \in Procs :
        \/ CallUpsertTask(p)
        \/ CallOnSendTask(p)
        \/ CallOnGetTask(p)
        \/ AcquireLock(p)
        \/ UpsertSection(p)
        \/ InvokeReturn(p)
        \/ InvokeRaise(p)
        \/ ReplySection(p)
        \/ GetSection(p)

Spec == Init /\ [][Next]_vars

(* The scheduling of the event loop: a coroutine inside a locked section
   runs on to the release of the lock, for no await is inside a section; a
   coroutine waiting for the lock gets it, for asyncio.Lock wakes its
   waiters in the order in which they came. Nothing makes the collaborator
   (agent.invoke) ever answer, and nothing makes callers call. *)
Fairness ==
    \A p \in Procs :
        /\ SF_vars(AcquireLock(p))
        /\ WF_vars(UpsertSection(p))
        /\ WF_vars(ReplySection(p))
        /\ WF_vars(GetSection(p))

(* The task manager with at most MaxLiveCalls calls. *)
MaxLiveCalls == 2

LiveNext ==
    \E p \in Procs :
        \/ ncalls < MaxLiveCalls /\ CallUpsertTask(p)
        \/ ncalls < MaxLiveCalls /\ CallOnSendTask(p)
        \/ ncalls < MaxLiveCalls /\ CallOnGetTask(p)
        \/ AcquireLock(p)
        \/ UpsertSection(p)
        \/ InvokeReturn(p)
        \/ InvokeRaise(p)
        \/ ReplySection(p)
        \/ GetSection(p)

LiveSpec == Init /\ [][LiveNext]_vars /\ Fairness

(* The task manager under on_send_task calls only, with a collaborator that
   always answers. *)
SendNext ==
    \E p \in Procs :
        \/ CallOnSendTask(p)
        \/ AcquireLock(p)
        \/ UpsertSection(p)
        \/ InvokeReturn(p)
        \/ ReplySection(p)

SendSpec == Init /\ [][SendNext]_vars

(* The task manager behind the server: every call of on_send_task is made by
   handle_request. *)
ServerNext ==
    \E p \in Procs :
        \/ HandleRequest(p)
        \/ ValidateRequest(p)
        \/ AcquireLock(p)
        \/ UpsertSection(p)
        \/ InvokeReturn(p)
        \/ InvokeRaise(p)
        \/ ReplySection(p)

ServerSpec == Init /\ [][ServerNext]_vars

---------------------------------------------------------------------------
(* Properties *)

Stored(id) == objs[tasks[id]]

(* The entries of h at the positions where k holds c. *)
Pick(h, k, c) ==
    LET f[i \in 0..Len(k)] ==
            IF i = 0 THEN <<>>
            ELSE IF k[i] = c /\ i <= Len(h) THEN Append(f[i - 1], h[i]) ELSE f[i - 1]
    IN  f[Len(k)]

Front(s) == SubSeq(s, 1, Len(s) - 1)

InUpsert(id) == \E p \in Procs : pc[p] = "upsert_cs" /\ req[p].params.id = id

(* The messages of the upsert_task calls on id that have run their locked
   section, in the order in which the calls took the lock. *)
Upserted(id) == IF InUpsert(id) THEN Front(upcalls[id]) ELSE upcalls[id]

(* C1: the messages that the upsert_task calls on one id put into the
   stored history are exactly the messages of these calls, in call order,
   however the calls are interleaved with calls on other ids: none lost,
   duplicated, reordered or taken from another id. *)
C1_HistoryInCallOrder ==
    \A id \in TaskIds :
        IF id \in DOMAIN tasks
        THEN /\ Len(Stored(id).history) = Len(kinds[id])
             /\ Pick(Stored(id).history, kinds[id], "u") = Upserted(id)
             /\ (\A i \in 1..Len(kinds[id]) : kinds[id][i] = "u")
                    => Stored(id).history = Upserted(id)
        ELSE Upserted(id) = <<>>

C1_Witness ==
    \E id \in TaskIds, other \in TaskIds :
        /\ id # other
        /\ other \in DOMAIN tasks
        /\ id \in DOMAIN tasks
        /\ kinds[id] = <<"u", "u">>
        /\ Stored(id).history = upcalls[id]
        /\ upcalls[id][1] # upcalls[id][2]

ObjectsOf(id) == { a \in 1..Len(objs) : objs[a].id = id }

(* C2: upsert_task is atomic per id: at most one call is inside the locked
   section at a time, exactly one Task object is ever created for an id, and
   the message of every call that ran is in the history of that object. *)
C2_UpsertAtomic ==
    /\ Cardinality({ p \in Procs : pc[p] = "upsert_cs" }) <= 1
    /\ \A id \in TaskIds :
          /\ Cardinality(ObjectsOf(id)) = (IF Upserted(id) = <<>> THEN 0 ELSE 1)
          /\ id \in DOMAIN tasks <=> ObjectsOf(id) # {}
          /\ id \in DOMAIN tasks =>
                /\ tasks[id] \in ObjectsOf(id)
                /\ Len(Pick(Stored(id).history, kinds[id], "u")) = Len(upcalls[id])
                       - (IF InUpsert(id) THEN 1 ELSE 0)
                /\ \A i \in 1..Len(Upserted(id)) :
                       \E j \in 1..Len(Stored(id).history) :
                           Stored(id).history[j] = Upserted(id)[i]

(* Two calls for the same id, not yet in the store, run concurrently: one is
   inside the locked section, the other waits for the lock. *)
C2_Witness ==
    \E p \in Procs, q \in Procs :
        /\ p # q
        /\ pc[p] = "upsert_cs"
        /\ pc[q] = "upsert_lock"
        /\ req[p].params.id = req[q].params.id
        /\ req[p].params.id \notin DOMAIN tasks

---------------------------------------------------------------------------
InSection == { p \in Procs : pc[p] \in CsPcs }

(* An on_send_task that has done its upsert and not yet its status update
   and reply append. *)
BetweenSections(p) == pc[p] \in {"invoke", "reply_lock"}

(* C3 as stated: one on_send_task call is one critical section, so while a
   call is between its upsert and its reply/status update no other operation
   runs a locked section on the store. *)
C3_Original ==
    [][\A p \in Procs : BetweenSections(p) =>
           \A q \in Procs \ {p} : ~(pc[q] \in CsPcs /\ pc'[q] # pc[q])]_vars

(* C3 as the code has it: the store is read and written only inside
   sections guarded by the one lock, the lock is held exactly while one
   coroutine is inside such a section, and an on_send_task that awaits the
   collaborator is in none: its upsert and its status update + reply append
   are two sections with the lock released in between. *)
C3_LockedSections ==
    /\ [](/\ Cardinality(InSection) = (IF locked THEN 1 ELSE 0)
          /\ \A p \in Procs : BetweenSections(p) => p \notin InSection)
    /\ [][/\ (objs' # objs \/ tasks' # tasks) =>
                 \E p \in InSection : pc'[p] \notin CsPcs /\ ~locked'
          /\ \A p \in Procs :
                 (pc[p] \in CsPcs /\ pc'[p] # pc[p]) => InSection = {p} /\ locked]_vars

(* While p awaits the collaborator for a task that only p's upsert has
   written, another caller has fetched that task: it saw the user message
   and the state submitted. *)
C3_Witness ==
    \E p \in Procs :
        /\ pc[p] = "invoke"
        /\ ~locked
        /\ kinds[req[p].params.id] = <<"u">>
        /\ last.request.method = "tasks/get"
        /\ last.by # p
        /\ last.request.params.id = req[p].params.id
        /\ last.outcome.kind = "response"
        /\ last.outcome.response.result.status.state = SUBMITTED

(* C4: on_get_task for an id never passed to upsert_task returns a response
   with error set and result unset, and never raises. *)
C4_UnknownIdReturnsError ==
    (/\ last.request.method = "tasks/get"
     /\ upcalls[last.request.params.id] = <<>>)
    => /\ last.outcome.kind = "response"
       /\ last.outcome.response.error # NoError
       /\ last.outcome.response.result = NoTask

(* C5: a tasks/send for an id on which nothing else was sent leaves the task
   submitted with history [user message] right after the upsert, and
   completed with history [user message, agent reply] once on_send_task has
   returned. *)
C5_SendLifecycle ==
    /\ \A p \in Procs :
          (/\ pc[p] = "invoke"
           /\ Len(upcalls[req[p].params.id]) = 1)
          => /\ req[p].params.id \in DOMAIN tasks
             /\ Stored(req[p].params.id).status.state = SUBMITTED
             /\ Stored(req[p].params.id).history = <<req[p].params.message>>
    /\ (/\ last.request.method = "tasks/send"
        /\ last.outcome.kind = "response"
        /\ Len(upcalls[last.request.params.id]) = 1)
       => LET t == Stored(last.request.params.id) IN
          /\ t.status.state = COMPLETED
          /\ Len(t.history) = 2
          /\ t.history[1] = last.request.params.message
          /\ t.history[1].role = "user"
          /\ \E text \in ReplyTexts : t.history[2] = Message("agent", <<text>>)
          /\ last.outcome.response.result = TaskRef(tasks[last.request.params.id])
          /\ last.outcome.response.error = NoError

C5_Witness ==
    /\ last.request.method = "tasks/send"
    /\ last.request.params.id = "t1"
    /\ last.outcome.kind = "response"
    /\ Len(upcalls["t1"]) = 1
    /\ DOMAIN tasks = {"t1"}
    /\ Stored("t1").status.state = COMPLETED

---------------------------------------------------------------------------
(* The step in which coroutine p leaves the locked section of upsert_task. *)
UpsertStep(p) == pc[p] = "upsert_cs" /\ pc'[p] # "upsert_cs"

(* C6: upsert_task with an id not in the store adds exactly one task for
   that id, in state submitted and with history [params.message], and leaves
   the rest of the store alone; no task enters the store in another state. *)
C6_CreateSubmitted ==
    [][/\ \A p \in Procs :
             (UpsertStep(p) /\ req[p].params.id \notin DOMAIN tasks) =>
                 LET id == req[p].params.id IN
                 /\ DOMAIN tasks' = DOMAIN tasks \cup {id}
                 /\ \A other \in DOMAIN tasks : tasks'[other] = tasks[other]
                 /\ Len(objs') = Len(objs) + 1
                 /\ SubSeq(objs', 1, Len(objs)) = objs
                 /\ tasks'[id] = Len(objs')
                 /\ objs'[tasks'[id]].id = id
                 /\ objs'[tasks'[id]].status.state = SUBMITTED
                 /\ objs'[tasks'[id]].history = <<req[p].params.message>>
       /\ \A id \in TaskIds :
             (id \notin DOMAIN tasks /\ id \in DOMAIN tasks') =>
                 /\ objs'[tasks'[id]].status.state = SUBMITTED
                 /\ \E p \in Procs : UpsertStep(p) /\ req[p].params.id = id]_vars

C6_Witness ==
    /\ last.request.method = "upsert_task"
    /\ last.outcome.kind = "task"
    /\ kinds[last.request.params.id] = <<"u">>
    /\ Stored(last.request.params.id).status.state = SUBMITTED
    /\ Stored(last.request.params.id).history = <<last.request.params.message>>
    /\ last.outcome.addr = tasks[last.request.params.id]

(* C7: upsert_task on an id already in the store appends the message to that
   task's history and changes nothing else: status (completed included) and
   id stay, every other task stays, no task is added, and the task returned
   is the stored one. *)
C7_UpsertExistingFrame ==
    [][\A p \in Procs :
           (UpsertStep(p) /\ req[p].params.id \in DOMAIN tasks) =>
               LET a == tasks[req[p].params.id] IN
               /\ tasks' = tasks
               /\ Len(objs') = Len(objs)
               /\ \A b \in 1..Len(objs) : b # a => objs'[b] = objs[b]
               /\ objs'[a].status = objs[a].status
               /\ objs'[a].id = objs[a].id
               /\ objs'[a].history = Append(objs[a].history, req[p].params.message)
               /\ req[p].method = "upsert_task" => last'.outcome = ReturnedTask(a)
               /\ pc'[p] = "invoke" => task'[p] = a]_vars

(* An upsert_task ran on a completed task, which is still completed. *)
C7_Witness ==
    \E id \in DOMAIN tasks :
        /\ kinds[id] = <<"u", "r", "u">>
        /\ Stored(id).status.state = COMPLETED
        /\ Len(Stored(id).history) = 3
        /\ last.request.method = "upsert_task"
        /\ last.outcome = ReturnedTask(tasks[id])

(* C8: no step of on_get_task changes the store, whatever historyLength is;
   a fetch without historyLength returns every message written so far. *)
C8_GetDoesNotMutate ==
    [][\A p \in Procs :
           (pc[p] \in {"get_lock", "get_cs"} /\ pc'[p] # pc[p]) =>
               /\ objs' = objs
               /\ tasks' = tasks
               /\ (/\ pc[p] = "get_cs"
                   /\ ~req[p].params.historyLength.some
                   /\ req[p].params.id \in DOMAIN tasks)
                  => /\ last'.outcome.kind = "response"
                     /\ ListItems(objs', last'.outcome.response.result.history)
                            = Stored(req[p].params.id).history
                     /\ Len(ListItems(objs', last'.outcome.response.result.history))
                            = Len(kinds[req[p].params.id])]_vars

(* A truncated fetch has returned fewer messages than the task holds. *)
C8_Witness ==
    /\ last.request.method = "tasks/get"
    /\ last.request.params.historyLength.some
    /\ last.outcome.kind = "response"
    /\ fresh
    /\ Len(ListItems(objs, last.outcome.response.result.history))
           < Len(Stored(last.request.params.id).history)
    /\ Len(Stored(last.request.params.id).history)
           = Len(kinds[last.request.params.id])

(* The last n entries of h. *)
LastN(h, n) == SubSeq(h, Len(h) - Min(n, Len(h)) + 1, Len(h))

(* C9: with historyLength = N >= 0 (N = 0 and N > L included) on_get_task
   returns exactly the last min(N, L) messages of the stored history, in
   order; with historyLength absent it returns all of them. *)
C9_LastMessages ==
    (/\ last.request.method = "tasks/get"
     /\ last.request.params.id \in DOMAIN tasks
     /\ fresh)
    => LET h  == Stored(last.request.params.id).history
           hl == last.request.params.historyLength
       IN  /\ last.outcome.kind = "response"
           /\ ~hl.some =>
                  ListItems(objs, last.outcome.response.result.history) = h
           /\ (hl.some /\ hl.val >= 0) =>
                  ListItems(objs, last.outcome.response.result.history)
                      = LastN(h, hl.val)

(* C10: an on_get_task that repeats the request of the call before it, the
   task not written in between, returns a response structurally identical
   to the first one, for ids in the store and for ids not in it. *)
C10_RepeatedGet ==
    [][\A p \in Procs :
           (/\ pc[p] = "get_cs"
            /\ pc'[p] # "get_cs"
            /\ fresh
            /\ last.request = req[p])
           => /\ last.outcome.kind = "response"
              /\ last'.outcome.kind = "response"
              /\ ViewOutcome(objs', last'.outcome) = ViewOutcome(objs, last.outcome)]_vars

---------------------------------------------------------------------------
InLockedWrite(id) ==
    \E p \in Procs : pc[p] \in {"upsert_cs", "reply_cs"} /\ req[p].params.id = id

(* The messages of the upsert and reply-completion steps on id that have run
   their locked section, in the order in which the steps took the lock. *)
Written(id) == IF InLockedWrite(id) THEN Front(acquired[id]) ELSE acquired[id]

(* C11: for each task id the history holds the messages of the upsert steps
   (user messages) and of the reply-completion steps (agent messages) on that
   id in the order in which these steps acquired the store lock, whatever the
   interleaving of the on_send_task calls on this id and on other ids. *)
C11_HistoryInLockOrder ==
    \A id \in TaskIds :
        IF id \in DOMAIN tasks
        THEN Stored(id).history = Written(id)
        ELSE Written(id) = <<>>

(* A second call on the id took the lock between the upsert and the reply
   completion of an on_send_task, while the other id is in the store too. *)
C11_Witness ==
    \E id \in TaskIds, other \in TaskIds :
        /\ id # other
        /\ other \in DOMAIN tasks
        /\ id \in DOMAIN tasks
        /\ kinds[id] = <<"u", "u", "r">>
        /\ ~InLockedWrite(id)
        /\ Stored(id).history = acquired[id]
        /\ Stored(id).history[1] # Stored(id).history[2]
        /\ Stored(id).history[3].role = "agent"

---------------------------------------------------------------------------
(* C12: every response carries the id of the request it answers: the
   responses returned by on_send_task and on_get_task, and the responses that
   POST / sends, on its error path too. *)
C12_ResponseEchoesId ==
    /\ last.outcome.kind = "response" =>
           last.outcome.response.id = last.request.id
    /\ (http # NoHttp /\ http.request.kind = "json") =>
           http.content.id = http.request.id

(* Exactly one of result and error is set. *)
ExactlyOne(result, error) == (result = NoTask) # (error = NoError)

(* C13: every call that answers with a JSON-RPC response (on_send_task that
   returns, on_get_task for ids in the store and for ids not in it, the
   exception path of POST /) produces a response in which exactly one of
   result and error is set. *)
C13_ExactlyOneOfResultError ==
    /\ last.outcome.kind = "response" =>
           ExactlyOne(last.outcome.response.result, last.outcome.response.error)
    /\ last.request.method = "tasks/get" => last.outcome.kind = "response"
    /\ http # NoHttp =>
           (http.content.result = <<"none">>) # (http.content.error = NoError)

(* C14: whenever handle_request ends with an exception (body that is not
   JSON, unknown method, params that do not fit the method, tasks/get, an
   exception out of on_send_task) it answers that request with HTTP 400 and
   an error envelope with code -32603 and message str(exception), and with
   no result; it answers 200 only when on_send_task has returned. *)
C14_ExceptionsAnswered400 ==
    [][\A p \in Procs :
           (conn[p] # NoBody /\ conn'[p] = NoBody) =>
               LET out == IF pc[p] = "read_body"
                          THEN Dispatch(conn[p])
                          ELSE last'.outcome
               IN  /\ http'.by = p
                   /\ http'.request = conn[p]
                   /\ IF out.kind = "raise"
                      THEN /\ http'.status = 400
                           /\ "error" \in http'.content.keys
                           /\ http'.content.error.code = -32603
                           /\ http'.content.error.message = StrOf(out.exc)
                           /\ http'.content.result = <<"none">>
                      ELSE /\ http'.status = 200
                           /\ out.kind = "response"]_vars

(* An exception out of on_send_task was answered with 400 and its message. *)
C14_Witness ==
    /\ http.status = 400
    /\ http.by = last.by
    /\ http.request.kind = "json"
    /\ http.request.method = "tasks/send"
    /\ last.outcome = Raised("IndexError")
    /\ http.content.error.message = "list index out of range"
    /\ http.content.error.code = -32603

(* The method of the body is not one of the union, or its params lack a
   required field of the params of its method. *)
Malformed(body) ==
    /\ body.kind = "json"
    /\ \/ body.method \notin Methods
       \/ ~(RequiredKeys(body.method) \subseteq body.params.keys)

(* C15: a request with an unrecognized method or with params that do not
   match its method is refused by the validation: handle_request answers it
   without entering a handler, and the step leaves the task store as it was;
   a coroutine inside on_send_task always serves a well-formed tasks/send. *)
C15_InvalidRequestLeavesStore ==
    /\ [](\A p \in Procs :
              pc[p] \notin {"idle", "read_body"} =>
                  /\ ~Malformed(conn[p])
                  /\ conn[p].method = "tasks/send")
    /\ [][\A p \in Procs :
              (pc[p] = "read_body" /\ Malformed(conn[p]) /\ pc'[p] # pc[p]) =>
                  /\ pc'[p] = "idle"
                  /\ objs' = objs
                  /\ tasks' = tasks
                  /\ http'.by = p
                  /\ http'.status = 400]_vars

(* A tasks/send without message for an id in the store was refused and the
   task was not touched. *)
C15_Witness ==
    /\ http.status = 400
    /\ Malformed(http.request)
    /\ http.request.method = "tasks/send"
    /\ http.request.params.id \in DOMAIN tasks
    /\ Stored(http.request.params.id).history = acquired[http.request.params.id]
    /\ Len(Stored(http.request.params.id).history) = 1
    /\ \A p \in Procs : pc[p] = "idle"

(* C16: a well-formed tasks/get for an id that is not in the store is
   answered with a non-error HTTP status and a JSON-RPC response in which
   error is set. *)
C16_MissingTaskIsRpcError ==
    (/\ http.request.kind = "json"
     /\ http.request.method = "tasks/get"
     /\ ~Malformed(http.request)
     /\ http.request.params.id \notin DOMAIN tasks)
    => /\ http.status = 200
       /\ http.content.error # NoError

---------------------------------------------------------------------------
IsPrefix(s, t) == Len(s) <= Len(t) /\ SubSeq(t, 1, Len(s)) = s

(* C22: the task store only grows: an id once in the store stays in it, bound
   to the Task object it was bound to, and in every step the history a task
   had before is a prefix of the history it has after (no message removed,
   replaced or reordered). *)
C22_StoreOnlyGrows ==
    [][\A id \in DOMAIN tasks :
           /\ id \in DOMAIN tasks'
           /\ tasks'[id] = tasks[id]
           /\ IsPrefix(objs[tasks[id]].history, objs'[tasks'[id]].history)]_vars

(* Both ids are in the store; one of them was sent and completed and has
   now been written to again by a tasks/send that awaits the collaborator. *)
C22_Witness ==
    \E id \in TaskIds, other \in TaskIds, p \in Procs :
        /\ id # other
        /\ {id, other} \subseteq DOMAIN tasks
        /\ kinds[id] = <<"u", "r", "u">>
        /\ Len(Stored(id).history) = 3
        /\ Stored(id).history[2].role = "agent"
        /\ pc[p] = "invoke"
        /\ req[p].params.id = id
        /\ Len(Stored(other).history) = 1

---------------------------------------------------------------------------
(* What a task that got one tasks/send and nothing else may look like:
   submitted with the user message, or completed with the user message and
   the agent reply. *)
BeforeOrAfterReply(state, history, message) ==
    \/ /\ state = SUBMITTED
       /\ history = <<message>>
    \/ /\ state = COMPLETED
       /\ Len(history) = 2
       /\ history[1] = message
       /\ \E text \in ReplyTexts : history[2] = Message("agent", <<text>>)

(* C23: on_send_task appends the agent reply and sets the state to completed
   in one critical section: a task that has received exactly one
   on_send_task is, in every state of the store and in every complete fetch
   that on_get_task returns for it, either submitted with history [user
   message] or completed with history [user message, agent reply]. *)
C23_ReplyWithCompleted ==
    /\ [](\A id \in DOMAIN tasks :
              Len(upcalls[id]) = 1 =>
                  BeforeOrAfterReply(Stored(id).status.state, Stored(id).history,
                                     upcalls[id][1]))
    /\ [][\A p \in Procs :
              (/\ pc[p] = "get_cs"
               /\ pc'[p] # "get_cs"
               /\ req[p].params.id \in DOMAIN tasks
               /\ Len(upcalls[req[p].params.id]) = 1
               /\ ~req[p].params.historyLength.some)
              => /\ last'.outcome.kind = "response"
                 /\ BeforeOrAfterReply(
                        last'.outcome.response.result.status.state,
                        ListItems(objs', last'.outcome.response.result.history),
                        upcalls[req[p].params.id][1])]_vars

(* One on_send_task is waiting for the lock of its reply section while an
   on_get_task for the same task is inside its own section: the fetch before
   it returned the task submitted, with the user message only. *)
C23_Witness ==
    \E p \in Procs, q \in Procs :
        /\ pc[p] = "reply_lock"
        /\ pc[q] = "get_cs"
        /\ req[q].params.id = req[p].params.id
        /\ ~req[q].params.historyLength.some
        /\ kinds[req[p].params.id] = <<"u">>
        /\ last.request.method = "tasks/get"
        /\ last.request.params.id = req[p].params.id
        /\ last.outcome.kind = "response"
        /\ last.outcome.response.result.status.state = SUBMITTED

---------------------------------------------------------------------------
(* C25: under upsert_task, on_send_task and on_get_task every stored task is
   submitted or completed, and completed is absorbing: no later step, be it
   of a new tasks/send on the same id or of a call whose handler fails, takes
   a completed task to another state. *)
C25_CompletedAbsorbing ==
    /\ [](\A id \in DOMAIN tasks :
              Stored(id).status.state \in {SUBMITTED, COMPLETED})
    /\ [][\A id \in DOMAIN tasks :
              Stored(id).status.state = COMPLETED =>
                  /\ id \in DOMAIN tasks'
                  /\ objs'[tasks'[id]].status.state = COMPLETED]_vars

(* A completed task got two more tasks/send: the handler of one failed, the
   other is still waiting for its handler; the task is completed. *)
C25_Witness ==
    \E id \in DOMAIN tasks, p \in Procs :
        /\ kinds[id] = <<"u", "r", "u", "u">>
        /\ Stored(id).status.state = COMPLETED
        /\ pc[p] = "invoke"
        /\ req[p].params.id = id
        /\ last.request.method = "tasks/send"
        /\ last.request.params.id = id
        /\ last.outcome = Raised("AgentError")

---------------------------------------------------------------------------
(* The number of messages of role `role` in history h. *)
CountRole(h, role) == Cardinality({ i \in 1..Len(h) : h[i].role = role })

CountKind(k, c) == Cardinality({ i \in 1..Len(k) : k[i] = c })

(* C26: when agent.invoke raises during an on_send_task called by the
   server, the step writes nothing to the store: the task keeps the user
   message of the call and the state it had after the upsert (submitted when
   the task is new), no agent message is appended for the call, the call
   holds no lock, and the server answers the request with HTTP 400 and the
   error envelope. *)
C26_InvokeFailureKeepsUpsert ==
    [][\A p \in Procs :
           (pc[p] = "invoke" /\ pc'[p] = "idle") =>
               LET id == req[p].params.id IN
               /\ objs' = objs
               /\ tasks' = tasks
               /\ id \in DOMAIN tasks'
               /\ tasks'[id] = task[p]
               /\ \E i \in 1..Len(objs'[tasks'[id]].history) :
                      objs'[tasks'[id]].history[i] = req[p].params.message
               /\ CountRole(objs'[tasks'[id]].history, "agent") = CountKind(kinds'[id], "r")
               /\ kinds'[id] = kinds[id]
               /\ kinds[id] = <<"u">> =>
                      /\ objs'[tasks'[id]].status.state = SUBMITTED
                      /\ objs'[tasks'[id]].history = <<req[p].params.message>>
               /\ locked' = locked
               /\ locked' => \E q \in Procs \ {p} : pc'[q] \in CsPcs
               /\ last'.outcome = Raised("AgentError")
               /\ http'.by = p
               /\ http'.request = conn[p]
               /\ http'.status = 400
               /\ http'.content.error = InternalError(StrOf("AgentError"))
               /\ http'.content.result = <<"none">>]_vars

(* The handler of a tasks/send for a new task has failed: the task is in the
   store, submitted, with the user message, the lock is free and the 400
   answer has gone out. *)
C26_Witness ==
    \E id \in DOMAIN tasks :
        /\ last.outcome = Raised("AgentError")
        /\ last.request.params.id = id
        /\ kinds[id] = <<"u">>
        /\ Stored(id).status.state = SUBMITTED
        /\ Stored(id).history = <<last.request.params.message>>
        /\ ~locked
        /\ http.by = last.by
        /\ http.status = 400
        /\ http.content.error.message = "agent failed"
        /\ \A p \in Procs : pc[p] = "idle"

---------------------------------------------------------------------------
(* C27: an on_send_task suspended in agent.invoke does not hold the store
   lock, and every operation that waits for the lock (upsert_task,
   on_get_task, either section of on_send_task, on any id) gets it and
   leaves its locked section, also while other on_send_task calls wait for
   their collaborator for ever. *)
C27_LockFreeWhileInvoking ==
    /\ [](\A p \in Procs :
              pc[p] = "invoke" =>
                  (locked => \E q \in Procs \ {p} : pc[q] \in CsPcs))
    /\ \A p \in Procs :
           (pc[p] \in LockPcs) ~> (pc[p] \notin (LockPcs \cup CsPcs))

(* While one on_send_task waits for its collaborator, a tasks/send on the
   same id by another caller has run both its sections and returned. *)
C27_Witness ==
    \E p \in Procs :
        /\ pc[p] = "invoke"
        /\ last.by # p
        /\ last.request.method = "tasks/send"
        /\ last.request.params.id = req[p].params.id
        /\ last.outcome.kind = "response"
        /\ kinds[req[p].params.id] = <<"u", "u", "r">>
        /\ ~locked

---------------------------------------------------------------------------
(* The on_send_task calls on id that have done their upsert and not yet
   appended their reply. *)
AwaitingReply(id) ==
    { p \in Procs : pc[p] \in {"invoke", "reply_lock", "reply_cs"}
                     /\ req[p].params.id = id }

(* The user messages in h that _get_user_text cannot read (no parts): the
   on_send_task calls that brought them ended with an exception. *)
Unreadable(h) ==
    Cardinality({ i \in 1..Len(h) : h[i].role = "user" /\ h[i].parts = <<>> })

(* C28: under any number of concurrent on_send_task calls on one id, the
   history of the task is as long as the number of upserts done plus the
   number of replies appended on that id, a reply is appended behind the
   user message of its call (not necessarily next to it), and every call
   that went past its upsert is either still waiting to append its reply or
   has appended it: when all k calls have completed, the history holds k
   user messages and k agent messages. *)
C28_ConcurrentSendsCount ==
    /\ [](\A id \in DOMAIN tasks :
              LET h == Stored(id).history IN
              /\ Len(h) = CountKind(kinds[id], "u") + CountKind(kinds[id], "r")
              /\ \A i \in 1..Len(h) :
                     h[i].role = (IF kinds[id][i] = "u" THEN "user" ELSE "agent")
              /\ \A n \in 1..Len(h) :
                     CountRole(SubSeq(h, 1, n), "agent")
                         <= CountRole(SubSeq(h, 1, n), "user")
              /\ CountRole(h, "agent") + Cardinality(AwaitingReply(id)) + Unreadable(h)
                     = CountRole(h, "user")
              /\ (AwaitingReply(id) = {} /\ Unreadable(h) = 0) =>
                     /\ CountRole(h, "user") = CountKind(kinds[id], "r")
                     /\ CountRole(h, "agent") = CountKind(kinds[id], "r"))
    /\ [][\A p \in Procs :
              (pc[p] = "reply_cs" /\ pc'[p] # "reply_cs") =>
                  LET h == objs[task[p]].history IN
                  /\ tasks[req[p].params.id] = task[p]
                  /\ objs'[task[p]].history = Append(h, Message("agent", <<reply[p]>>))
                  /\ \E i \in 1..Len(h) : h[i] = req[p].params.message]_vars

(* Two concurrent on_send_task calls on one id have both completed: the two
   user messages came first, then the two replies. *)
C28_Witness ==
    \E id \in DOMAIN tasks :
        /\ kinds[id] = <<"u", "u", "r", "r">>
        /\ \A p \in Procs : pc[p] = "idle"
        /\ CountRole(Stored(id).history, "user") = 2
        /\ CountRole(Stored(id).history, "agent") = 2
        /\ Stored(id).history[2].role = "user"
        /\ Stored(id).history[3].role = "agent"

---------------------------------------------------------------------------
(* C29: the task that on_get_task returned is a snapshot: whatever
   upsert_task and on_send_task do to the same id afterwards, the history
   and the status of the returned task stay what they were when on_get_task
   returned, with historyLength and without. *)
C29_ReturnedTaskIsSnapshot ==
    [][(/\ last.request.method = "tasks/get"
        /\ last.outcome.kind = "response"
        /\ last' = last)
       => ViewOutcome(objs', last.outcome) = ViewOutcome(objs, last.outcome)]_vars

---------------------------------------------------------------------------
(* utilities/discovery.py : DiscoveryClient *)

MaxRegistry == 3

(* Base URLs, as the characters they are made of: "a", "a/" and "b". *)
Urls == { <<"a">>, <<"a", "/">>, <<"b">> }

(* An entry of the list that is not a string: JSON null, written as the
   token it is in the file. *)
NullEntry == <<"null">>

(* isinstance(entry, str) *)
IsStr(entry) == entry # NullEntry

Entries == Urls \cup { NullEntry }

Registries == UNION { [1..n -> Entries] : n \in 0..MaxRegistry }

(* What json.load finds in the file: a list (of URLs, or of whatever the
   file lists), or a value that is not a list (an object, a string). *)
JsonList(items) == [list |-> TRUE, items |-> items]
JsonObject == [list |-> FALSE, items |-> <<>>]

FileMissing == [kind |-> "missing"]
FileText == [kind |-> "text"]
FileJson(data) == [kind |-> "json", data |-> data]

Files ==
    { FileMissing, FileText, FileJson(JsonObject) }
    \cup { FileJson(JsonList(r)) : r \in Registries }

IrregularFiles == { FileMissing, FileText, FileJson(JsonObject) }

Loaded(urls) == [kind |-> "list", urls |-> urls]

(* _load_registry without the handler for ValueError. *)
LoadRegistryUncaught(file) ==
    IF file.kind = "missing" THEN Loaded(<<>>)
    ELSE IF file.kind = "text" THEN Raised("JSONDecodeError")
    ELSE IF ~file.data.list THEN Raised("ValueError")
    ELSE Loaded(file.data.items)

(* _load_registry (lines 61-77): open and json.load; FileNotFoundError,
   JSONDecodeError and the ValueError raised for a value that is not a list
   are caught and give the empty list. *)
LoadRegistry(file) ==
    IF file.kind = "missing" THEN Loaded(<<>>)
    ELSE IF file.kind = "text" THEN Loaded(<<>>)
    ELSE IF ~file.data.list THEN Loaded(<<>>)
    ELSE Loaded(file.data.items)

(* base.rstrip("/") *)
RECURSIVE RStrip(_)
RStrip(base) ==
    IF base # <<>> /\ base[Len(base)] = "/"
    THEN RStrip(SubSeq(base, 1, Len(base) - 1))
    ELSE base

(* line 94 *)
ProbeUrl(base) == RStrip(base) \o <<"/.well-known/agent.json">>

(* How a probe can end: a 2xx answer with an AgentCard, a timeout, a status
   that is not 2xx, a body that is no AgentCard. *)
ProbeOutcomes == {"ok", "timeout", "status", "invalid"}

(* The AgentCard that the agent behind a probed URL serves. *)
AgentCard(url) ==
    [name |-> IF url[1] = "a" THEN "Tell Time Agent" ELSE "Greeting Agent",
     url  |-> url]

(* A loop that gives up at the first probe that fails. *)
ProbeEntryAbort(urls, i, found_cards, outcome) ==
    IF outcome = "ok"
    THEN [cards |-> Append(found_cards, AgentCard(ProbeUrl(urls[i]))), pos |-> i + 1]
    ELSE [cards |-> found_cards, pos |-> Len(urls) + 1]

(* One round of the loop of list_agent_cards (lines 92-106). *)
ProbeEntry(urls, i, found_cards, outcome) ==
    IF outcome = "ok"
    THEN [cards |-> Append(found_cards, AgentCard(ProbeUrl(urls[i]))), pos |-> i + 1]
    ELSE [cards |-> found_cards, pos |-> i + 1]

NoFound == [some |-> FALSE, cards |-> <<>>]
Found(c) == [some |-> TRUE, cards |-> c]

DiscoveryInit ==
    /\ ManagerInit
    /\ DelegationIdle
    /\ ExecutorIdle
    /\ registry_file \in Files
    /\ base_urls = <<>>
    /\ lpc = "new"
    /\ pos = 0
    /\ cards = <<>>
    /\ probed = <<>>
    /\ found = NoFound

(* DiscoveryClient(registry_file) (lines 32-52) *)
Construct ==
    /\ lpc = "new"
    /\ LET r == LoadRegistry(registry_file) IN
       IF r.kind = "raise"
       THEN /\ lpc' = "failed"
            /\ base_urls' = base_urls
       ELSE /\ lpc' = "ready"
            /\ base_urls' = r.urls
    /\ UNCHANGED <<registry_file, pos, cards, probed, found>>
    /\ UNCHANGED <<managerVars, delegationVars, executorVars>>

(* list_agent_cards is called (lines 87-92). *)
ListAgentCards ==
    /\ lpc \in {"ready", "raised"}
    /\ lpc' = "probing"
    /\ cards' = <<>>
    /\ pos' = 1
    /\ probed' = <<>>
    /\ found' = NoFound
    /\ UNCHANGED <<registry_file, base_urls>>
    /\ UNCHANGED <<managerVars, delegationVars, executorVars>>

(* The GET of one entry ends (lines 94-106). *)
Probe ==
    /\ lpc = "probing"
    /\ pos <= Len(base_urls)
    /\ IsStr(base_urls[pos])
    /\ \E outcome \in ProbeOutcomes :
          LET r == ProbeEntry(base_urls, pos, cards, outcome) IN
          /\ cards' = r.cards
          /\ pos' = r.pos
          /\ probed' = Append(probed, outcome)
    /\ UNCHANGED <<registry_file, base_urls, lpc, found>>
    /\ UNCHANGED <<managerVars, delegationVars, executorVars>>

(* The loop is at an entry that is not a string: `base.rstrip("/")` (line
   94) stands before the try and raises AttributeError, which leaves
   list_agent_cards. *)
ProbeUrlRaise ==
    /\ lpc = "probing"
    /\ pos <= Len(base_urls)
    /\ ~IsStr(base_urls[pos])
    /\ lpc' = "raised"
    /\ UNCHANGED <<registry_file, base_urls, pos, cards, probed, found>>
    /\ UNCHANGED <<managerVars, delegationVars, executorVars>>

(* The loop is over; list_agent_cards returns (line 108). *)
ReturnCards ==
    /\ lpc = "probing"
    /\ pos > Len(base_urls)
    /\ found' = Found(cards)
    /\ lpc' = "ready"
    /\ UNCHANGED <<registry_file, base_urls, pos, cards, probed>>
    /\ UNCHANGED <<managerVars, delegationVars, executorVars>>

DiscoveryNext ==
    Construct \/ ListAgentCards \/ Probe \/ ProbeUrlRaise \/ ReturnCards

DiscoverySpec == DiscoveryInit /\ [][DiscoveryNext]_vars

(* The cards of the entries whose probe succeeded, in the order of the
   entries. *)
Succeeded(urls, outcomes) ==
    LET f[i \in 0..Len(outcomes)] ==
            IF i = 0 THEN <<>>
            ELSE IF outcomes[i] = "ok"
                 THEN Append(f[i - 1], AgentCard(ProbeUrl(urls[i])))
                 ELSE f[i - 1]
    IN  f[Len(outcomes)]

(* C17: list_agent_cards probes every entry of the registry, whatever the
   probes before it did, and returns exactly the cards of the entries whose
   probe succeeded, in registry order, one card per succeeding entry (so
   twice for an entry listed twice). *)
C17_CardsOfSucceededProbes ==
    /\ lpc = "probing" =>
           /\ Len(probed) = pos - 1
           /\ pos <= Len(base_urls) + 1
           /\ cards = Succeeded(base_urls, probed)
    /\ found.some =>
           /\ Len(probed) = Len(base_urls)
           /\ found.cards = Succeeded(base_urls, probed)
           /\ Len(found.cards) = Cardinality({ i \in 1..Len(probed) : probed[i] = "ok" })

(* Three entries, the first listed again as the third; the second timed
   out: two cards came back, the same card twice. *)
C17_Witness ==
    /\ found.some
    /\ Len(base_urls) = 3
    /\ base_urls[1] = base_urls[3]
    /\ probed = <<"ok", "timeout", "ok">>
    /\ Len(found.cards) = 2
    /\ found.cards[1] = found.cards[2]

(* C18: building a DiscoveryClient on a registry file that is missing, is
   not JSON or is JSON that is not a list does not fail: the client has an
   empty registry and list_agent_cards returns the empty list. *)
C18_IrregularFileEmptyRegistry ==
    registry_file \in IrregularFiles =>
        /\ lpc # "failed"
        /\ base_urls = <<>>
        /\ found.some => found.cards = <<>>

C18_Witness ==
    /\ registry_file = FileJson(JsonObject)
    /\ lpc = "ready"
    /\ found.some
    /\ found.cards = <<>>
    /\ probed = <<>>

(* C30: list_agent_cards never raises and never changes the loaded
   registry: whatever the entries of the list that _load_registry accepted,
   a failure that concerns one entry, building its probe URL included, is
   confined to that entry, every entry is gone through, base_urls stays as
   loaded and no more cards are returned than there are entries. *)
C30_ListNeverRaises ==
    /\ [](/\ lpc # "raised"
          /\ found.some => /\ Len(found.cards) <= Len(base_urls)
                           /\ pos = Len(base_urls) + 1)
    /\ [][lpc # "new" => base_urls' = base_urls]_vars

---------------------------------------------------------------------------
(* agents/host_agent/agent.py, agents/greeting_agent/agent.py,
   agents/host_agent/orchestrator.py : delegation to remote agents;
   utilities/a2a/agent_connect.py, agents/host_agent/agent_connect.py,
   client/client_bat.py : the connectors *)

MaxDelegations == 3
MaxCards == 2

Components == {"HostAgent", "GreetingAgent", "OrchestratorAgent"}

KnownCards == { AgentCard(<<"a">>), AgentCard(<<"b">>) }
CardNames == { c.name : c \in KnownCards }
CardLists == UNION { [1..n -> KnownCards] : n \in 0..MaxCards }

(* The agent_name arguments the LLM passes. *)
AgentNames == {"Tell Time Agent", "tell time agent", "Agent", "Nobody"}

(* str.lower() on the names of the model *)
Lower(name) ==
    CASE name = "Tell Time Agent" -> "tell time agent"
      [] name = "Greeting Agent"  -> "greeting agent"
      [] name = "Agent"           -> "agent"
      [] name = "Nobody"          -> "nobody"
      [] OTHER                    -> name

(* `part in whole` on the lowered names of the model *)
Contains(whole, part) ==
    \/ whole = part
    \/ part = "agent" /\ whole \in {"tell time agent", "greeting agent"}

MinOf(S) == CHOOSE x \in S : \A y \in S : x <= y
MaxOf(S) == CHOOSE x \in S : \A y \in S : x >= y

(* The card call_agent settles on: the first whose name equals agent_name
   without regard to case, else the first whose name contains it; 0 when
   there is none (host_agent/agent.py:194-205, greeting_agent/agent.py:118-130). *)
Match(cs, agent_name) ==
    LET exact == { i \in 1..Len(cs) : Lower(cs[i].name) = Lower(agent_name) }
        part  == { i \in 1..Len(cs) : Contains(Lower(cs[i].name), Lower(agent_name)) }
    IN  IF exact # {} THEN MinOf(exact)
        ELSE IF part # {} THEN MinOf(part)
        ELSE 0

(* The AgentConnector class a component imports. *)
ClientOf(c) == IF c = "OrchestratorAgent" THEN "client_bat" ELSE "a2a.client"

AgentConnector(name, base_url, client) ==
    [name |-> name, url |-> base_url, client |-> client]

(* A lookup that builds a connector on every call. *)
GetConnectorAlwaysNew(conns, mk, card, client) ==
    [connectors |-> (card.name :> (Len(mk) + 1)) @@ conns,
     made       |-> Append(mk, AgentConnector(card.name, card.url, client)),
     connector  |-> Len(mk) + 1]

(* "create or reuse the connector" of call_agent
   (host_agent/agent.py:211-219, greeting_agent/agent.py:137-144). *)
GetConnector(conns, mk, card, client) ==
    IF card.name \in DOMAIN conns
    THEN [connectors |-> conns, made |-> mk, connector |-> conns[card.name]]
    ELSE [connectors |-> (card.name :> (Len(mk) + 1)) @@ conns,
          made       |-> Append(mk, AgentConnector(card.name, card.url, client)),
          connector  |-> Len(mk) + 1]

(* OrchestratorAgent.__init__ (orchestrator.py:82-85): the dict
   comprehension builds one connector per card; of the cards with one name
   the last one stays in the dict. *)
BuildConnectors(cs) ==
    [connectors |-> [n \in { cs[i].name : i \in 1..Len(cs) } |->
                         MaxOf({ i \in 1..Len(cs) : cs[i].name = n })],
     made       |-> [i \in 1..Len(cs) |->
                         AgentConnector(cs[i].name, cs[i].url, "client_bat")]]

(* What the remote agent answers to the POST of send_task: a success
   envelope with a Task, an error envelope sent with status 200 (no result
   member), an error envelope sent with status 400 and "result": null (the
   except branch of server.py), or nothing in time. *)
HttpReply(status, keys, result, error) ==
    [kind |-> "http", status |-> status, keys |-> keys, result |-> result,
     error |-> error]
NoReply == [kind |-> "timeout", status |-> 0, keys |-> {}, result |-> None,
            error |-> None]
Replies ==
    { HttpReply(200, {"jsonrpc", "id", "result"}, "task", None),
      HttpReply(200, {"jsonrpc", "id", "error"}, None, "boom"),
      HttpReply(400, {"jsonrpc", "id", "result", "error"}, None, "boom"),
      NoReply }

(* Outcomes of send_task: the value returned, or the exception raised with
   the pieces its message is made of. *)
Returned(value) == [kind |-> "return", value |-> value, exc |-> None, text |-> <<>>]
RaisedWith(exc, text) == [kind |-> "raise", value |-> None, exc |-> exc, text |-> text]

(* A2AClient.send_task and _send_request of client/client_bat.py (lines
   68-111), called by the AgentConnector of agents/host_agent
   (agent_connect.py:71-75). *)
BatSendTask(resp) ==
    IF resp.kind = "timeout"
    THEN { RaisedWith("TimeoutException", <<"timed out">>) }
    ELSE IF resp.status >= 400
    THEN { RaisedWith("A2AClientHTTPError", <<"400", "Client error">>) }
    ELSE IF "result" \notin resp.keys
    THEN { RaisedWith("KeyError", <<"result">>) }
    ELSE IF resp.result = None
    THEN { RaisedWith("TypeError", <<"argument after ** must be a mapping">>) }
    ELSE { Returned(resp.result) }

(* AgentConnector.send_task of utilities/a2a/agent_connect.py (lines
   87-108). client.send_message belongs to the a2a package: it hands back
   the parsed envelope or raises; for an answer with an error status either
   can happen. *)
SdkSendTask(name, resp) ==
    LET failed == RaisedWith("RuntimeError",
                             <<"Failed to send message to", name, resp.error>>)
    IN
    IF resp.kind = "timeout"
    THEN { RaisedWith("A2AClientError", <<"timed out">>) }
    ELSE IF resp.status >= 400
    THEN { RaisedWith("A2AClientError", <<"400">>), failed }
    ELSE IF resp.error # None
    THEN { failed }
    ELSE { Returned(resp.result) }

SendTask(connector, resp) ==
    IF connector.client = "client_bat"
    THEN BatSendTask(resp)
    ELSE SdkSendTask(connector.name, resp)

(* The component is constructed (host_agent/agent.py:41-46,
   greeting_agent/agent.py:84-87, orchestrator.py:79-85). Only
   OrchestratorAgent is given cards; HostAgent reads the registry file and
   GreetingAgent discovers the cards anew in every call. *)
BuildAgent ==
    /\ component = None
    /\ \E kind \in Components, cs \in CardLists :
          /\ kind # "OrchestratorAgent" => cs = <<>>
          /\ component' = kind
          /\ agent_cards' = cs
          /\ IF kind = "OrchestratorAgent"
             THEN /\ connectors' = BuildConnectors(cs).connectors
                  /\ made' = BuildConnectors(cs).made
             ELSE UNCHANGED <<connectors, made>>
    /\ UNCHANGED <<cpc, creq, cuse, used, sent, ndeleg>>
    /\ UNCHANGED <<managerVars, discoveryVars, executorVars>>

(* call_agent once the cards are at hand: match, create or reuse the
   connector, await connector.send_task. *)
Resolve(p, cs, agent_name) ==
    LET i == Match(cs, agent_name) IN
    IF i = 0
    THEN /\ cpc' = [cpc EXCEPT ![p] = "idle"]
         /\ creq' = [creq EXCEPT ![p] = None]
         /\ UNCHANGED <<connectors, made, cuse, used>>
    ELSE LET g == GetConnector(connectors, made, cs[i], ClientOf(component)) IN
         /\ connectors' = g.connectors
         /\ made' = g.made
         /\ cuse' = [cuse EXCEPT ![p] = g.connector]
         /\ used' = [used EXCEPT ![cs[i].name] = Append(@, g.connector)]
         /\ cpc' = [cpc EXCEPT ![p] = "send"]
         /\ creq' = [creq EXCEPT ![p] = agent_name]

(* call_agent(agent_name, message) of HostAgent and GreetingAgent is
   entered. HostAgent reads the agents of the registry file and goes on
   without an await; GreetingAgent awaits the discovery first. *)
CallAgent(p) ==
    /\ component \in {"HostAgent", "GreetingAgent"}
    /\ cpc[p] = "idle"
    /\ ndeleg < MaxDelegations
    /\ ndeleg' = ndeleg + 1
    /\ \E agent_name \in AgentNames :
          IF component = "GreetingAgent"
          THEN /\ cpc' = [cpc EXCEPT ![p] = "discover"]
               /\ creq' = [creq EXCEPT ![p] = agent_name]
               /\ UNCHANGED <<connectors, made, cuse, used>>
          ELSE \E cs \in CardLists : Resolve(p, cs, agent_name)
    /\ UNCHANGED <<component, agent_cards, sent>>
    /\ UNCHANGED <<managerVars, discoveryVars, executorVars>>

(* GreetingAgent: `await self.discovery.list_agent_cards()` returns
   (greeting_agent/agent.py:115). *)
Discovered(p) ==
    /\ cpc[p] = "discover"
    /\ \E cs \in CardLists : Resolve(p, cs, creq[p])
    /\ UNCHANGED <<component, agent_cards, sent, ndeleg>>
    /\ UNCHANGED <<managerVars, discoveryVars, executorVars>>

(* _delegate_task(agent_name, message, tool_context) of OrchestratorAgent
   is entered (orchestrator.py:154-165). *)
DelegateTask(p) ==
    /\ component = "OrchestratorAgent"
    /\ cpc[p] = "idle"
    /\ ndeleg < MaxDelegations
    /\ ndeleg' = ndeleg + 1
    /\ \E agent_name \in AgentNames :
          IF agent_name \notin DOMAIN connectors
          THEN UNCHANGED <<cpc, creq, cuse, used>>
          ELSE /\ cuse' = [cuse EXCEPT ![p] = connectors[agent_name]]
               /\ used' = [used EXCEPT ![agent_name] = Append(@, connectors[agent_name])]
               /\ cpc' = [cpc EXCEPT ![p] = "send"]
               /\ creq' = [creq EXCEPT ![p] = agent_name]
    /\ UNCHANGED <<component, agent_cards, connectors, made, sent>>
    /\ UNCHANGED <<managerVars, discoveryVars, executorVars>>

(* The remote agent has answered (or not): connector.send_task ends. *)
RemoteReply(p) ==
    /\ cpc[p] = "send"
    /\ \E resp \in Replies :
          \E out \in SendTask(made[cuse[p]], resp) :
              sent' = [by |-> p, connector |-> cuse[p], reply |-> resp,
                       outcome |-> out]
    /\ cpc' = [cpc EXCEPT ![p] = "idle"]
    /\ creq' = [creq EXCEPT ![p] = None]
    /\ cuse' = [cuse EXCEPT ![p] = NoAddr]
    /\ UNCHANGED <<component, agent_cards, connectors, made, used, ndeleg>>
    /\ UNCHANGED <<managerVars, discoveryVars, executorVars>>

DelegationNext ==
    \/ BuildAgent
    \/ \E p \in Procs :
           \/ CallAgent(p)
           \/ Discovered(p)
           \/ DelegateTask(p)
           \/ RemoteReply(p)

DelegationSpec == Init /\ [][DelegationNext]_vars

Pieces(text) == { text[i] : i \in 1..Len(text) }

(* C19: when the remote agent answers send_task with an error envelope,
   send_task raises an error whose message carries the message of the remote
   error; it returns no Task and no other value. *)
C19_ErrorEnvelopeRaised ==
    (sent.reply.kind = "http" /\ sent.reply.error # None) =>
        /\ sent.outcome.kind = "raise"
        /\ sent.reply.error \in Pieces(sent.outcome.text)

(* The connectors created for a name. *)
ConnectorsOf(name) == { a \in 1..Len(made) : made[a].name = name }

CardsNamed(name) == { i \in 1..Len(agent_cards) : agent_cards[i].name = name }

(* C20 as stated: in the lifetime of a component at most one AgentConnector
   is created per agent name, every call for a name uses that instance, and
   an entry of the cache is never replaced or removed. *)
C20_Original ==
    /\ [](\A name \in CardNames :
              /\ Cardinality(ConnectorsOf(name)) <= 1
              /\ \A i \in 1..Len(used[name]) : used[name][i] = used[name][1])
    /\ [][\A name \in DOMAIN connectors :
              name \in DOMAIN connectors' /\ connectors'[name] = connectors[name]]_vars

(* C20 as the code has it: a delegation call creates a connector only for a
   name that has none in the cache, every call for a name uses the one
   instance the cache holds for it, and once the component is constructed
   an entry is never replaced or removed. HostAgent and GreetingAgent thus
   create at most one connector per name; OrchestratorAgent creates its
   connectors in its constructor, one per card it is given, so as many per
   name as there are cards with that name, of which the cache keeps one. *)
C20_ConnectorCache ==
    /\ [](\A name \in CardNames :
              /\ Cardinality(ConnectorsOf(name)) =
                     IF component = "OrchestratorAgent"
                     THEN Cardinality(CardsNamed(name))
                     ELSE IF name \in DOMAIN connectors THEN 1 ELSE 0
              /\ name \in DOMAIN connectors => connectors[name] \in ConnectorsOf(name)
              /\ \A i \in 1..Len(used[name]) :
                     name \in DOMAIN connectors /\ used[name][i] = connectors[name])
    /\ [][component # None =>
              /\ \A name \in DOMAIN connectors :
                     name \in DOMAIN connectors' /\ connectors'[name] = connectors[name]
              /\ SubSeq(made', 1, Len(made)) = made
              /\ Len(made') <= Len(made) + 1
              /\ Len(made') = Len(made) + 1 =>
                     /\ made'[Len(made')].name \notin DOMAIN connectors
                     /\ connectors'[made'[Len(made')].name] = Len(made')]_vars

(* Two calls that named the agent differently are both waiting for its
   answer on the one connector that exists. *)
C20_Witness ==
    \E name \in CardNames :
        /\ component = "HostAgent"
        /\ Len(used[name]) = 2
        /\ used[name][1] = used[name][2]
        /\ Cardinality(ConnectorsOf(name)) = 1
        /\ \A p \in Procs : cpc[p] = "send" /\ cuse[p] = connectors[name]
        /\ \E p \in Procs, q \in Procs : creq[p] # creq[q]

---------------------------------------------------------------------------
(* agents/host_agent/agent_executor.py,
   agents/excel_whisper_agent/agent_executor.py : the AgentExecutors *)

MaxExecutes == 2

Executors == {"HostAgentExecutor", "ExcelWhisperAgentExecutor"}

(* context.message: absent, or a message with or without parts. *)
ContextMessages == { NoMessage } \cup InMessages

(* context.current_task: absent, or the task the request continues. *)
CurrentTasks == { NoCurrentTask, ExecTask("t1", "c1", "working") }

(* new_task(message): a submitted Task with an id of its own. *)
NewTask(message) == ExecTask("new", "c-new", SUBMITTED)

(* What goes into the event queue: a Task, a TaskArtifactUpdateEvent or a
   TaskStatusUpdateEvent. *)
Event(kind, t, state, text, lastChunk, final) ==
    [kind |-> kind, taskId |-> t.id, contextId |-> t.contextId, state |-> state,
     text |-> text, lastChunk |-> lastChunk, final |-> final]

TaskEvent(t) == Event("task", t, t.state, None, FALSE, FALSE)
TaskArtifactUpdateEvent(t, text) == Event("artifact-update", t, None, text, TRUE, FALSE)
TaskStatusUpdateEvent(t, state, text) == Event("status-update", t, state, text, FALSE, TRUE)

(* An event of agent.stream *)
StreamEvent(is_task_complete, require_user_input, content) ==
    [is_task_complete |-> is_task_complete,
     require_user_input |-> require_user_input, content |-> content]

(* agent.stream(query, session_id): awaits invoke and yields one event, which
   says that the task is complete (host_agent/agent.py:313-323,
   excel_whisper_agent/agent.py:146-164). *)
AgentStream(response) == << StreamEvent(TRUE, FALSE, response) >>

(* The body of the loop with the two events of the completion swapped. *)
EventsForStatusFirst(ex, t, event) ==
    IF event.is_task_complete
    THEN << TaskStatusUpdateEvent(t, COMPLETED, None),
            TaskArtifactUpdateEvent(t, event.content) >>
    ELSE IF ex = "ExcelWhisperAgentExecutor" /\ event.require_user_input
    THEN << TaskStatusUpdateEvent(t, "input-required", event.content) >>
    ELSE << >>

(* The body of the loop over the stream: the events enqueued for one event
   of the agent (host_agent/agent_executor.py:75-105,
   excel_whisper_agent/agent_executor.py:75-126). *)
EventsFor(ex, t, event) ==
    IF event.is_task_complete
    THEN << TaskArtifactUpdateEvent(t, event.content),
            TaskStatusUpdateEvent(t, COMPLETED, None) >>
    ELSE IF ex = "ExcelWhisperAgentExecutor" /\ event.require_user_input
    THEN << TaskStatusUpdateEvent(t, "input-required", event.content) >>
    ELSE << >>

(* A cancel that does nothing and returns. *)
CancelOutcomeNoOp(ex) == Returned(None)

(* cancel (host_agent/agent_executor.py:107-109,
   excel_whisper_agent/agent_executor.py:128-130) *)
CancelOutcome(ex) == RaisedWith("Exception", <<"Cancel not supported">>)

(* execute is called and runs to its first await (lines 54-68): without a
   message it raises; without a current task it makes one and goes to enqueue
   it; else it goes to the stream of the agent. *)
Execute ==
    /\ epc = "idle"
    /\ Len(ecalls) < MaxExecutes
    /\ ecalls' = Append(ecalls, "execute")
    /\ event_queue' = <<>>
    /\ \E ex \in Executors, m \in ContextMessages, ct \in CurrentTasks :
          /\ executor' = ex
          /\ context' = RequestContext(m, ct)
          /\ IF m = NoMessage
             THEN /\ eout' = RaisedWith("Exception", <<"No message provided">>)
                  /\ epc' = "idle"
                  /\ etask' = ct
                  /\ pending' = <<>>
             ELSE IF ct = NoCurrentTask
             THEN /\ eout' = NoOutcome
                  /\ etask' = NewTask(m)
                  /\ pending' = << TaskEvent(NewTask(m)) >>
                  /\ epc' = "enqueue_task"
             ELSE /\ eout' = NoOutcome
                  /\ etask' = ct
                  /\ pending' = <<>>
                  /\ epc' = "stream"
    /\ UNCHANGED cout
    /\ UNCHANGED <<managerVars, discoveryVars, delegationVars>>

(* `await event_queue.enqueue_event(task)` (line 68); execute then awaits the
   stream of the agent. *)
EnqueueTask ==
    /\ epc = "enqueue_task"
    /\ event_queue' = Append(event_queue, Head(pending))
    /\ pending' = Tail(pending)
    /\ epc' = "stream"
    /\ UNCHANGED <<executor, context, etask, eout, cout, ecalls>>
    /\ UNCHANGED <<managerVars, discoveryVars, delegationVars>>

(* The agent yields its event; execute makes the events for it (lines
   72-104). A stream event that makes none is the last: execute returns. *)
StreamYield ==
    /\ epc = "stream"
    /\ \E response \in ReplyTexts :
          LET events == EventsFor(executor, etask, AgentStream(response)[1]) IN
          /\ pending' = events
          /\ IF events = <<>>
             THEN epc' = "idle" /\ eout' = Returned(None)
             ELSE epc' = "enqueue" /\ eout' = eout
    /\ UNCHANGED <<executor, context, etask, event_queue, cout, ecalls>>
    /\ UNCHANGED <<managerVars, discoveryVars, delegationVars>>

(* agent.invoke raises inside agent.stream; execute has no handler. *)
StreamRaise ==
    /\ epc = "stream"
    /\ eout' = RaisedWith("AgentError", <<"agent failed">>)
    /\ epc' = "idle"
    /\ UNCHANGED <<executor, context, etask, pending, event_queue, cout, ecalls>>
    /\ UNCHANGED <<managerVars, discoveryVars, delegationVars>>

(* `await event_queue.enqueue_event(...)` of the loop (lines 87, 105); after
   the last one the stream is over and execute returns. *)
EnqueueEvent ==
    /\ epc = "enqueue"
    /\ pending # <<>>
    /\ event_queue' = Append(event_queue, Head(pending))
    /\ pending' = Tail(pending)
    /\ IF Tail(pending) = <<>>
       THEN epc' = "idle" /\ eout' = Returned(None)
       ELSE epc' = epc /\ eout' = eout
    /\ UNCHANGED <<executor, context, etask, cout, ecalls>>
    /\ UNCHANGED <<managerVars, discoveryVars, delegationVars>>

(* cancel(context, event_queue) is called, at any time. *)
Cancel ==
    /\ Len(ecalls) < MaxExecutes
    /\ ecalls' = Append(ecalls, "cancel")
    /\ \E ex \in Executors : cout' = CancelOutcome(ex)
    /\ UNCHANGED <<executor, context, epc, etask, pending, event_queue, eout>>
    /\ UNCHANGED <<managerVars, discoveryVars, delegationVars>>

ExecutorNext ==
    \/ Execute
    \/ EnqueueTask
    \/ StreamYield
    \/ StreamRaise
    \/ EnqueueEvent
    \/ Cancel

ExecutorSpec == Init /\ [][ExecutorNext]_vars

(* C21: cancel fails loudly on every call: it raises the 'Cancel not
   supported' error, enqueues no event and changes no task, also while an
   execute is running; it never returns normally. *)
C21_CancelRaises ==
    /\ [](cout \in {NoOutcome, RaisedWith("Exception", <<"Cancel not supported">>)})
    /\ [][ecalls' = Append(ecalls, "cancel") =>
              /\ cout' = RaisedWith("Exception", <<"Cancel not supported">>)
              /\ event_queue' = event_queue
              /\ pending' = pending
              /\ context' = context
              /\ etask' = etask
              /\ epc' = epc
              /\ eout' = eout]_vars

(* cancel was called while an execute was between its two enqueues: it
   raised, and the queue holds what execute had put there. *)
C21_Witness ==
    /\ ecalls = <<"execute", "cancel">>
    /\ cout = RaisedWith("Exception", <<"Cancel not supported">>)
    /\ epc = "enqueue"
    /\ Len(event_queue) = 2
    /\ Len(pending) = 1
    /\ etask.state = SUBMITTED

Finals(q) == { i \in 1..Len(q) : q[i].final }

(* The events of execute are in the order of the code: the new task, if
   one was made, first and nowhere else; a completed status update right
   behind the artifact update with lastChunk; nothing behind a final status
   update. *)
InOrder(q) ==
    /\ \A i \in 1..Len(q) :
           /\ q[i].kind = "task" => (i = 1 /\ context.current_task = NoCurrentTask)
           /\ q[i].taskId = etask.id
           /\ q[i].final => i = Len(q)
           /\ (q[i].kind = "status-update" /\ q[i].state = COMPLETED) =>
                  /\ q[i].final
                  /\ i > 1
                  /\ q[i - 1].kind = "artifact-update"
                  /\ q[i - 1].lastChunk
    /\ (context.current_task = NoCurrentTask /\ q # <<>>) =>
           q[1] = TaskEvent(NewTask(context.message))

(* C24 as stated: execute without a message raises with nothing enqueued;
   every other execute enqueues in the fixed order and has, when it is
   over, enqueued the status update with final = true exactly once, as the
   last event. *)
C24_Original ==
    /\ InOrder(event_queue)
    /\ (epc = "idle" /\ ecalls # <<>> /\ executor # None) =>
           IF context.message = NoMessage
           THEN eout.kind = "raise" /\ event_queue = <<>>
           ELSE Finals(event_queue) = {Len(event_queue)} /\ event_queue # <<>>

(* C24 as the code has it: execute without a message raises with nothing
   enqueued; every other execute enqueues in the fixed order (new task
   first, artifact update with lastChunk before the completed status
   update, the final status update last and at most once); an execute that
   returns has enqueued the final status update exactly once, as its last
   event; an execute whose agent raises ends with that exception, having
   enqueued at most the new task and no status update. *)
C24_EventOrder ==
    /\ InOrder(event_queue)
    /\ Cardinality(Finals(event_queue)) <= 1
    /\ (epc = "idle" /\ executor # None) =>
           /\ context.message = NoMessage <=>
                  eout = RaisedWith("Exception", <<"No message provided">>)
           /\ context.message = NoMessage => event_queue = <<>>
           /\ eout.kind = "return" =>
                  /\ event_queue # <<>>
                  /\ Finals(event_queue) = {Len(event_queue)}
                  /\ event_queue[Len(event_queue)].state = COMPLETED
                  /\ Len(event_queue) =
                         IF context.current_task = NoCurrentTask THEN 3 ELSE 2
           /\ eout = RaisedWith("AgentError", <<"agent failed">>) =>
                  /\ Finals(event_queue) = {}
                  /\ event_queue = IF context.current_task = NoCurrentTask
                                   THEN << TaskEvent(NewTask(context.message)) >>
                                   ELSE << >>

(* An execute for a request without a current task has returned: task,
   artifact update, final status update; the execute before it got no
   message. *)
C24_Witness ==
    /\ ecalls = <<"execute", "execute">>
    /\ epc = "idle"
    /\ eout.kind = "return"
    /\ context.current_task = NoCurrentTask
    /\ Len(event_queue) = 3
    /\ event_queue[1].kind = "task"
    /\ event_queue[2].kind = "artifact-update"
    /\ event_queue[3].kind = "status-update"
    /\ event_queue[3].final

====
